---- MODULE Spec2Model ----
(***************************************************************************)
(* Model of claude-code-proxy-golang:                                      *)
(*   - the streaming translator streamOpenAIToClaude                       *)
(*     (src/internal/server/handlers.go), specification SpecStream;        *)
(*   - the capability cache and the parameter-error retry                  *)
(*     (src/internal/config/config.go, src/internal/server/handlers.go,    *)
(*     src/internal/converter/converter.go), specification SpecCache.      *)
(***************************************************************************)
EXTENDS Integers, Sequences, FiniteSets, TLC

(***************************************************************************)
(* Bounds                                                                  *)
(***************************************************************************)
\* number of backend lines one stream delivers before its end
MaxChunks == 3
\* number of inbound requests the proxy receives
MaxRequests == 3

(***************************************************************************)
(* JSON values and tool arguments.  A JSON object is a function from keys  *)
(* to values; a value is a record tagged with its kind.  JSON text is      *)
(* related to values by the table JSONTexts: a text outside the table is   *)
(* not valid JSON.                                                         *)
(***************************************************************************)
EmptyMap == [k \in {} |-> 0]

JString(s) == [kind |-> "string", str |-> s, obj |-> EmptyMap]

JObject(m) == [kind |-> "object", str |-> "", obj |-> m]

JArray(text) == [kind |-> "array", str |-> text, obj |-> EmptyMap]

HasKey(m, k) == k \in DOMAIN m

\* input[k] = v
Put(m, k, v) == (k :> v) @@ m

\* if _, ok := input[k]; !ok { input[k] = v }
PutIfAbsent(m, k, v) == IF HasKey(m, k) THEN m ELSE Put(m, k, v)

\* for k, v := range src { if _, exists := input[k]; !exists { input[k] = v } }
MergeMissing(m, src) == m @@ src

DeleteKeys(m, K) == [k \in DOMAIN m \ K |-> m[k]]

\* the JSON object texts of the model, in the key order json.Marshal writes
JSONTexts ==
    ( "{}" :> EmptyMap ) @@
    ( "{\"query\":\"ls\"}" :> ("query" :> JString("ls")) ) @@
    ( "{\"command\":\"ls\"}" :> ("command" :> JString("ls")) ) @@
    ( "{\"command\":\"ls\",\"query\":\"ls\"}" :>
          (("command" :> JString("ls")) @@ ("query" :> JString("ls"))) )

\* json.Unmarshal into map[string]interface{} succeeds
IsJSONObjectText(text) == text \in DOMAIN JSONTexts

Unmarshal(text) == JSONTexts[text]

\* json.Marshal of a map
Marshal(m) ==
    IF \E t \in DOMAIN JSONTexts : JSONTexts[t] = m
    THEN CHOOSE t \in DOMAIN JSONTexts : JSONTexts[t] = m
    ELSE "<json>"

\* the first character of strings.TrimSpace(text)
FirstChar(text) ==
    CASE text \in DOMAIN JSONTexts -> "{"
      [] text \in {"[]", "[{\"content\":\"x\"}]"} -> "["
      [] OTHER -> "x"

\* json.Unmarshal into []interface{} succeeds
IsJSONArrayText(text) == text \in {"[]", "[{\"content\":\"x\"}]"}

\* strings.ToLower on the key and tool-name vocabulary of the model
ToLower(s) ==
    CASE s = "Query" -> "query"
      [] s = "QUERY" -> "query"
      [] s = "Bash" -> "bash"
      [] s = "Edit" -> "edit"
      [] s = "Read" -> "read"
      [] s = "Write" -> "write"
      [] s = "Grep" -> "grep"
      [] s = "Glob" -> "glob"
      [] s = "LSP" -> "lsp"
      [] s = "Task" -> "task"
      [] s = "TodoWrite" -> "todowrite"
      [] s = "WebFetch" -> "webfetch"
      [] s = "WebSearch" -> "websearch"
      [] s = "Skill" -> "skill"
      [] s = "AskUserQuestion" -> "askuserquestion"
      [] s = "NotebookEdit" -> "notebookedit"
      [] s = "filePath" -> "filepath"
      [] OTHER -> s

\* the family words that occur in a lowercased tool name
FamilyWords(nameLower) ==
    CASE nameLower = "bash" -> {"bash"}
      [] nameLower = "edit" -> {"edit"}
      [] nameLower = "read" -> {"read"}
      [] nameLower = "write" -> {"write"}
      [] nameLower = "grep" -> {"grep"}
      [] nameLower = "glob" -> {"glob"}
      [] nameLower = "lsp" -> {"lsp"}
      [] nameLower = "task" -> {"task", "ask"}
      [] nameLower = "todowrite" -> {"todo", "write"}
      [] nameLower = "webfetch" -> {"webfetch", "fetch"}
      [] nameLower = "websearch" -> {"websearch", "search"}
      [] nameLower = "skill" -> {"skill"}
      [] nameLower = "askuserquestion" -> {"askuserquestion", "ask"}
      [] nameLower = "notebookedit" -> {"notebook", "edit"}
      [] OTHER -> {}

\* strings.Contains(toolNameLower, word)
Contains(nameLower, word) == word \in FamilyWords(nameLower)

\* converter.go 766-801
hasRequiredParams(toolNameLower, input) ==
    CASE Contains(toolNameLower, "edit") ->
            HasKey(input, "file_path") /\ HasKey(input, "old_string")
                                       /\ HasKey(input, "new_string")
      [] Contains(toolNameLower, "bash") -> HasKey(input, "command")
      [] Contains(toolNameLower, "read") -> HasKey(input, "file_path")
      [] Contains(toolNameLower, "grep") -> HasKey(input, "pattern")
      [] Contains(toolNameLower, "glob") -> HasKey(input, "pattern")
      [] Contains(toolNameLower, "write") ->
            HasKey(input, "file_path") /\ HasKey(input, "content")
      [] Contains(toolNameLower, "todo") -> HasKey(input, "todos")
      [] Contains(toolNameLower, "skill") -> HasKey(input, "skill")
      [] Contains(toolNameLower, "notebook") -> HasKey(input, "notebook_path")
      [] OTHER -> TRUE

\* the keys of input whose lowercase spelling is "query", converter.go:603
QueryKeys(input) == {k \in DOMAIN input : ToLower(k) = "query"}

KeyRank(k) == CASE k = "query" -> 1 [] k = "Query" -> 2 [] OTHER -> 3

\* Go iterates a map in an unspecified order: rev selects one of the two
\* orders in which the query keys are met by "for key, val := range input"
RECURSIVE IterationOrder(_, _)
IterationOrder(K, rev) ==
    IF K = {} THEN <<>>
    ELSE LET k == CHOOSE x \in K : \A y \in K :
                     IF rev THEN KeyRank(y) <= KeyRank(x) ELSE KeyRank(x) <= KeyRank(y)
         IN  <<k>> \o IterationOrder(K \ {k}, rev)

\* queryContent after the loop of converter.go 602-613: the string value met last
RECURSIVE QueryContentOf(_, _, _)
QueryContentOf(input, order, acc) ==
    IF order = <<>> THEN acc
    ELSE LET v == input[Head(order)]
         IN  QueryContentOf(input, Tail(order),
                            IF v.kind = "string" THEN v.str ELSE acc)

\* queryMap after the loop of converter.go 602-613: <<found, the object met last>>
RECURSIVE QueryMapOf(_, _, _)
QueryMapOf(input, order, acc) ==
    IF order = <<>> THEN acc
    ELSE LET v == input[Head(order)]
         IN  QueryMapOf(input, Tail(order),
                        IF v.kind = "object" THEN <<TRUE, v.obj>> ELSE acc)

\* a spread that overwrites command and file_path
SpreadQueryOverwrite(toolNameLower, input, queryContent) ==
    LET q == JString(queryContent)
    IN  CASE Contains(toolNameLower, "bash") -> Put(input, "command", q)
          [] Contains(toolNameLower, "read") -> Put(input, "file_path", q)
          [] OTHER -> Put(Put(input, "command", q), "file_path", q)

\* the switch of converter.go 653-760
SpreadQuery(toolNameLower, input, queryContent) ==
    LET q == JString(queryContent)
    IN  CASE Contains(toolNameLower, "edit") ->
                PutIfAbsent(PutIfAbsent(PutIfAbsent(input, "file_path", q),
                                        "old_string", q), "new_string", q)
          [] Contains(toolNameLower, "grep") ->
                PutIfAbsent(PutIfAbsent(input, "pattern", q), "path", JString("."))
          [] Contains(toolNameLower, "bash") -> PutIfAbsent(input, "command", q)
          [] Contains(toolNameLower, "read") -> PutIfAbsent(input, "file_path", q)
          [] Contains(toolNameLower, "write") ->
                PutIfAbsent(PutIfAbsent(input, "file_path", q), "content", q)
          [] Contains(toolNameLower, "glob") -> PutIfAbsent(input, "pattern", q)
          [] Contains(toolNameLower, "lsp") -> PutIfAbsent(input, "filePath", q)
          [] Contains(toolNameLower, "task") /\ ~Contains(toolNameLower, "todo") ->
                PutIfAbsent(input, "prompt", q)
          [] Contains(toolNameLower, "todo") ->
                IF ~HasKey(input, "todos") /\ FirstChar(queryContent) = "["
                                           /\ IsJSONArrayText(queryContent)
                THEN Put(input, "todos", JArray(queryContent)) ELSE input
          [] Contains(toolNameLower, "webfetch") \/ Contains(toolNameLower, "fetch") ->
                PutIfAbsent(input, "url", q)
          [] Contains(toolNameLower, "websearch") \/ Contains(toolNameLower, "search") ->
                Put(input, "query", q)
          [] Contains(toolNameLower, "skill") -> PutIfAbsent(input, "skill", q)
          [] Contains(toolNameLower, "askuserquestion") \/ Contains(toolNameLower, "ask") ->
                IF ~HasKey(input, "questions") /\ FirstChar(queryContent) = "["
                                               /\ IsJSONArrayText(queryContent)
                THEN Put(input, "questions", JArray(queryContent)) ELSE input
          [] Contains(toolNameLower, "notebook") ->
                PutIfAbsent(input, "notebook_path", q)
          [] OTHER -> input

\* converter.go 590-763, for a non-nil input
SanitizeToolArgs(toolName, input, rev) ==
    LET toolNameLower == ToLower(toolName)
        order == IterationOrder(QueryKeys(input), rev)
        queryContent == QueryContentOf(input, order, "")
        queryMap == QueryMapOf(input, order, <<FALSE, EmptyMap>>)
        in1 == DeleteKeys(input, QueryKeys(input))
        in2 == IF queryMap[1] THEN MergeMissing(in1, queryMap[2]) ELSE in1
    IN  IF queryMap[1] /\ hasRequiredParams(toolNameLower, in2) THEN in2
        ELSE IF queryContent = "" THEN in2
        ELSE LET parsed == FirstChar(queryContent) = "{" /\ IsJSONObjectText(queryContent)
                 in3 == IF parsed THEN MergeMissing(in2, Unmarshal(queryContent)) ELSE in2
             IN  IF parsed /\ hasRequiredParams(toolNameLower, in3) THEN in3
                 ELSE SpreadQuery(toolNameLower, in3, queryContent)

\* a nil interface value or a nil map
JNull == [kind |-> "null", str |-> "", obj |-> EmptyMap]

\* strings.TrimSpace on the argument texts of the model
TrimSpace(text) ==
    CASE text = " " -> ""
      [] text = " {} " -> "{}"
      [] OTHER -> text

\* json.Unmarshal of a text into a map[string]interface{} returns no error:
\* an object text, or null, which leaves the map nil
UnmarshalsToMap(text) == IsJSONObjectText(text) \/ text = "null"

\* the map after json.Unmarshal, as an interface value: nil for the text null
UnmarshalMap(text) == IF text = "null" THEN JNull ELSE JObject(Unmarshal(text))

\* converter.go 590-763 with the nil check of 591-594; input is a map value
SanitizeToolArgsOfMap(toolName, input, rev) ==
    IF input.kind = "null" THEN JObject(EmptyMap)
    ELSE JObject(SanitizeToolArgs(toolName, input.obj, rev))

\* a sanitizer that hands an empty or blank text back as a string
sanitizeToolInputRaw(toolName, argsJSON, rev) ==
    LET trimmed == TrimSpace(argsJSON)
    IN  IF trimmed = "{}" THEN JObject(EmptyMap)
        ELSE IF ~UnmarshalsToMap(trimmed) THEN JString(trimmed)
        ELSE SanitizeToolArgsOfMap(toolName, UnmarshalMap(trimmed), rev)

\* converter.go 565-581
sanitizeToolInput(toolName, argsJSON, rev) ==
    LET trimmed == TrimSpace(argsJSON)
    IN  IF trimmed = "" \/ trimmed = "{}" THEN JObject(EmptyMap)
        ELSE IF ~UnmarshalsToMap(trimmed) THEN JString(trimmed)
        ELSE SanitizeToolArgsOfMap(toolName, UnmarshalMap(trimmed), rev)

\* converter.go 805-840
sanitizeToolInputFromInterface(toolName, input, rev) ==
    CASE input.kind = "null" -> JObject(EmptyMap)
      [] input.kind = "object" -> SanitizeToolArgsOfMap(toolName, input, rev)
      [] input.kind = "string" ->
            LET inputStr == TrimSpace(input.str)
            IN  IF inputStr = "" \/ inputStr = "{}" THEN JObject(EmptyMap)
                ELSE IF UnmarshalsToMap(inputStr)
                     THEN SanitizeToolArgsOfMap(toolName, UnmarshalMap(inputStr), rev)
                     ELSE JString(inputStr)
      [] OTHER -> input

(***************************************************************************)
(* State of one streamOpenAIToClaude call                                  *)
(***************************************************************************)
VARIABLES
    pc,                      \* position of the translator: "init", "reading", "done",
                             \* or "panicked" after a run-time panic
    ended,                   \* how the input ended: "", "done", "eof", "error"
    nread,                   \* number of backend lines consumed so far
    events,                  \* SSE events written to the client, in order
    nextIndex,
    textBlockIndex,
    thinkingBlockIndex,
    currentToolCalls,        \* map[int]*ToolCallState
    processedToolIDs,        \* map[string]bool, kept as the set of true keys
    finalStopReason,
    usageData,
    thinkingBlockStarted,
    thinkingBlockHasContent,
    textBlockStarted,
    observed,                \* history: what the backend lines read so far carried
    flushed                  \* number of events of the bufio.Writer flushed so far

streamVars == <<pc, ended, nread, events, nextIndex, textBlockIndex, thinkingBlockIndex,
                currentToolCalls, processedToolIDs, finalStopReason, usageData,
                thinkingBlockStarted, thinkingBlockHasContent, textBlockStarted,
                observed, flushed>>

(***************************************************************************)
(* State of the capability cache and of the requests in flight             *)
(***************************************************************************)
VARIABLES
    modelCapabilityCache,    \* map[CacheKey]*ModelCapabilities, config.go:47
    anthropicAPIKey,         \* cfg.AnthropicAPIKey, "" when no secret is configured
    req,                     \* per handler goroutine: the request it serves
    received,                \* number of requests received so far
    retriedKeys              \* history: keys for which the retry path has run

cacheVars == <<modelCapabilityCache, anthropicAPIKey, req, received, retriedKeys>>

(***************************************************************************)
(* Arguments handed to the sanitizers and what they returned               *)
(***************************************************************************)
VARIABLES
    toolName,                \* the tool name of the call
    toolArgs,                    \* the arguments, an interface value
    sanitized                \* per sanitizer: the value it returned, or NotCalled

sanitizeVars == <<toolName, toolArgs, sanitized>>

(***************************************************************************)
(* Input and output of the converter functions                             *)
(***************************************************************************)
VARIABLES
    claudeMessages,          \* []models.ClaudeMessage handed to convertMessages
    system,                  \* the system text handed to convertMessages
    openaiMessages,          \* what convertMessages returned
    openaiResp,              \* *models.OpenAIResponse handed to ConvertResponse
    claudeResp,              \* what ConvertResponse returned
    converted                \* the converter functions that have been called

convertVars == <<claudeMessages, system, openaiMessages, openaiResp, claudeResp, converted>>

(***************************************************************************)
(* Input and output of ConvertRequest                                      *)
(***************************************************************************)
VARIABLES
    claudeRequest,           \* models.ClaudeRequest handed to ConvertRequest
    config,                  \* *config.Config handed to ConvertRequest
    openaiRequest            \* what ConvertRequest returned, or NoRequest

requestVars == <<claudeRequest, config, openaiRequest>>

(***************************************************************************)
(* The second streaming implementation, StreamProcessor                    *)
(***************************************************************************)
VARIABLES
    processor                \* the StreamState of a StreamProcessor and the events it wrote

processorVars == <<processor>>

vars == <<streamVars, cacheVars, sanitizeVars, convertVars, requestVars, processorVars>>

(***************************************************************************)
(* Emitted events.  Every event is a record of the same shape; fields that *)
(* an event does not carry are "" or -1.  fwd marks an event that was not  *)
(* generated by the translator but forwarded from a backend chunk with a   *)
(* top-level "type".                                                       *)
(***************************************************************************)
Ev(type, index, btype, id, name, dtype, data, usage, fwd) ==
    [type |-> type, index |-> index, btype |-> btype, id |-> id, name |-> name,
     dtype |-> dtype, data |-> data, usage |-> usage, fwd |-> fwd]

ZeroUsage == <<0, 0>>

SimpleEvent(type) == Ev(type, -1, "", "", "", "", "", ZeroUsage, FALSE)

BlockStart(index, btype, id, name) ==
    Ev("content_block_start", index, btype, id, name, "", "", ZeroUsage, FALSE)

BlockDelta(index, dtype, data) ==
    Ev("content_block_delta", index, "", "", "", dtype, data, ZeroUsage, FALSE)

BlockStop(index) ==
    Ev("content_block_stop", index, "", "", "", "", "", ZeroUsage, FALSE)

\* message_delta: data carries delta.stop_reason, usage carries
\* <<input_tokens, output_tokens>>
MessageDelta(stopReason, usage) ==
    Ev("message_delta", -1, "", "", "", "", stopReason, usage, FALSE)

\* a chunk with a top-level "type" written back as "event: <type>", handlers.go:407
ForwardedEvent(type, index) ==
    Ev(type, index, "", "", "", "", "", ZeroUsage, TRUE)

\* stands for the literal placeholder text of handlers.go:703 and 860
PlaceholderText == "PLACEHOLDER"

(***************************************************************************)
(* The translator's local state as one record, so that the parts of the    *)
(* loop body compose as functions.                                         *)
(***************************************************************************)
State ==
    [events |-> events, nextIndex |-> nextIndex, textBlockIndex |-> textBlockIndex,
     thinkingBlockIndex |-> thinkingBlockIndex, currentToolCalls |-> currentToolCalls,
     processedToolIDs |-> processedToolIDs, finalStopReason |-> finalStopReason,
     usageData |-> usageData, thinkingBlockStarted |-> thinkingBlockStarted,
     thinkingBlockHasContent |-> thinkingBlockHasContent,
     textBlockStarted |-> textBlockStarted]

writeSSEEvent(S, e) == [S EXCEPT !.events = Append(@, e)]

NoToolCalls == [k \in {} |-> 0]

\* nothing read yet: no usage object and no finish_reason were in the input
NothingObserved ==
    [anyUsage |-> ZeroUsage, untypedUsage |-> ZeroUsage, finishSeen |-> FALSE,
     usageAfterFinish |-> FALSE, fragments |-> NoToolCalls,
     usedIDs |-> {}, named |-> {}, lastFinish |-> "", lastFinishRead |-> "",
     texts |-> {}, typed |-> 0]

\* NewStreamState, src/unnamed/part_006 204-227, with no event written
NewStreamState ==
    [events |-> <<>>, nextIndex |-> 0, textBlockIndex |-> -1, thinkingBlockIndex |-> -1,
     currentToolCalls |-> NoToolCalls, processedToolIDs |-> {},
     finalStopReason |-> "end_turn", usageData |-> ZeroUsage,
     thinkingBlockStarted |-> FALSE, thinkingBlockHasContent |-> FALSE,
     textBlockStarted |-> FALSE]

StreamInit ==
    /\ processor = NewStreamState
    /\ pc = "init"
    /\ ended = ""
    /\ nread = 0
    /\ events = <<>>
    /\ nextIndex = 0
    /\ textBlockIndex = -1
    /\ thinkingBlockIndex = -1
    /\ currentToolCalls = NoToolCalls
    /\ processedToolIDs = {}
    /\ finalStopReason = "end_turn"
    /\ usageData = ZeroUsage
    /\ thinkingBlockStarted = FALSE
    /\ thinkingBlockHasContent = FALSE
    /\ textBlockStarted = FALSE
    /\ observed = NothingObserved
    /\ flushed = 0

(***************************************************************************)
(* Reasoning and text deltas                                               *)
(***************************************************************************)
\* the lazily opened thinking block: handlers.go 477-492, 531-546, 568-583, 760-775
StartThinkingBlock(S) ==
    IF S.thinkingBlockStarted THEN S
    ELSE [writeSSEEvent(S, BlockStart(S.nextIndex, "thinking", "", ""))
            EXCEPT !.thinkingBlockIndex = S.nextIndex,
                   !.nextIndex = S.nextIndex + 1,
                   !.thinkingBlockStarted = TRUE]

\* one thinking_delta: handlers.go 495-502, 549-558, 586-595, 777-786
ThinkingDelta(S, text) ==
    LET S1 == StartThinkingBlock(S)
    IN  [writeSSEEvent(S1, BlockDelta(S1.thinkingBlockIndex, "thinking_delta", text))
            EXCEPT !.thinkingBlockHasContent = TRUE]

\* delta.reasoning_content, handlers.go 475-503
HandleReasoningContent(S, delta) ==
    IF delta.reasoning_content # "" THEN ThinkingDelta(S, delta.reasoning_content) ELSE S

\* text of one reasoning_details entry, handlers.go 512-527
DetailText(detail) ==
    CASE detail.type = "reasoning.text" -> detail.text
      [] detail.type = "reasoning.summary" -> detail.summary
      [] OTHER -> ""

RECURSIVE HandleDetails(_, _)
HandleDetails(S, details) ==
    IF details = <<>> THEN S
    ELSE LET t == DetailText(Head(details))
             S1 == IF t # "" THEN ThinkingDelta(S, t) ELSE S
         IN  HandleDetails(S1, Tail(details))

\* delta.reasoning_details, used only when delta.reasoning is absent, handlers.go 507-563
HandleReasoningDetails(S, delta) ==
    IF delta.reasoning = "" THEN HandleDetails(S, delta.reasoning_details) ELSE S

\* delta.reasoning, handlers.go 566-596
HandleReasoning(S, delta) ==
    IF delta.reasoning # "" THEN ThinkingDelta(S, delta.reasoning) ELSE S

\* the lazily opened text block: handlers.go 601-615, 730-744
StartTextBlock(S) ==
    IF S.textBlockStarted THEN S
    ELSE [writeSSEEvent(S, BlockStart(S.nextIndex, "text", "", ""))
            EXCEPT !.textBlockIndex = S.nextIndex,
                   !.nextIndex = S.nextIndex + 1,
                   !.textBlockStarted = TRUE]

\* one text_delta: handlers.go 599-626, 729-755
TextDelta(S, text) ==
    LET S1 == StartTextBlock(S)
    IN  writeSSEEvent(S1, BlockDelta(S1.textBlockIndex, "text_delta", text))

\* delta.content as a string, handlers.go 599-626
HandleTextContent(S, delta) ==
    IF delta.content # "" THEN TextDelta(S, delta.content) ELSE S

\* the placeholder text block opened before a tool block: handlers.go 686-707, 842-865
StartPlaceholder(S) ==
    IF S.textBlockStarted THEN S
    ELSE writeSSEEvent(StartTextBlock(S),
                       BlockDelta(S.nextIndex, "text_delta", PlaceholderText))

(***************************************************************************)
(* Tool calls                                                              *)
(***************************************************************************)
ToolCallState(id, name, args, jsonSent, claudeIndex, started) ==
    [ID |-> id, Name |-> name, ArgsBuffer |-> args, JSONSent |-> jsonSent,
     ClaudeIndex |-> claudeIndex, Started |-> started]

\* fmt.Sprintf("toolu_%d", time.Now().UnixNano()), handlers.go:648
NativeToolID(now) == "toolu_" \o ToString(now)

\* fmt.Sprintf("toolu_%d_%d", time.Now().UnixNano(), tcIndex), handlers.go:877, 1017
GenerateToolID(now, tcIndex) == "toolu_" \o ToString(now) \o "_" \o ToString(tcIndex)

\* a translator that never finds an id in processedToolIDs
AlreadyProcessedNever(S, id) == FALSE

\* processedToolIDs[id], handlers.go:652, 832, 884, 1024
AlreadyProcessed(S, id) == id \in S.processedToolIDs

\* the key a native tool_use block is stored under, handlers.go:662
NativeToolKey(toolCalls) == Cardinality(DOMAIN toolCalls)

\* a tool_use block of delta.content, handlers.go 636-725
HandleNativeToolUse(S, block, now) ==
    LET toolID == IF block.id = "" THEN NativeToolID(now) ELSE block.id
    IN  IF AlreadyProcessed(S, toolID) THEN S
        ELSE
        LET tcIndex == NativeToolKey(S.currentToolCalls)
            inputJSON == IF block.input = "" THEN "{}" ELSE block.input
            S1 == [S EXCEPT
                     !.processedToolIDs = @ \cup {toolID},
                     !.currentToolCalls =
                         (tcIndex :> ToolCallState(toolID, block.name, inputJSON,
                                                   FALSE, S.nextIndex, TRUE)) @@ @,
                     !.nextIndex = @ + 1]
            S2 == IF S1.textBlockStarted THEN S1
                  ELSE LET P == StartPlaceholder(S1)
                       IN  [P EXCEPT !.currentToolCalls[tcIndex].ClaudeIndex = P.nextIndex,
                                     !.nextIndex = P.nextIndex + 1]
        IN  writeSSEEvent(S2, BlockStart(S2.currentToolCalls[tcIndex].ClaudeIndex,
                                         "tool_use", toolID, block.name))

\* one block of an array-valued delta.content, handlers.go 631-789
HandleContentBlock(S, block, now) ==
    CASE block.type = "tool_use" -> HandleNativeToolUse(S, block, now)
      [] block.type = "text" -> IF block.text # "" THEN TextDelta(S, block.text) ELSE S
      [] block.type = "thinking" ->
            IF block.text # "" THEN ThinkingDelta(S, block.text) ELSE S
      [] OTHER -> S

RECURSIVE HandleContentArray(_, _, _)
HandleContentArray(S, blocks, now) ==
    IF blocks = <<>> THEN S
    ELSE HandleContentArray(HandleContentBlock(S, Head(blocks), now), Tail(blocks), now)

\* content_block_start of a delta.tool_calls entry, handlers.go 891-926
StartToolBlock(S, tcIndex) ==
    LET tc == S.currentToolCalls[tcIndex]
        S1 == [S EXCEPT !.processedToolIDs = @ \cup {tc.ID},
                        !.currentToolCalls[tcIndex].ClaudeIndex = S.nextIndex,
                        !.currentToolCalls[tcIndex].Started = TRUE,
                        !.nextIndex = @ + 1]
        S2 == writeSSEEvent(S1, BlockStart(S.nextIndex, "tool_use", tc.ID, tc.Name))
    IN  IF tc.ArgsBuffer # ""
        THEN [writeSSEEvent(S2, BlockDelta(S.nextIndex, "input_json_delta", tc.ArgsBuffer))
                EXCEPT !.currentToolCalls[tcIndex].JSONSent = TRUE]
        ELSE S2

\* function.arguments of a delta.tool_calls entry, handlers.go 928-977
AccumulateArgs(S, tcIndex, entry) ==
    LET tc == S.currentToolCalls[tcIndex]
        argsChunk == entry.args
        buffer == IF entry.argsIsObject THEN entry.args ELSE tc.ArgsBuffer \o entry.args
        S1 == [S EXCEPT !.currentToolCalls[tcIndex].ArgsBuffer = buffer]
    IN  IF tc.Started /\ argsChunk # ""
        THEN [writeSSEEvent(S1, BlockDelta(tc.ClaudeIndex, "input_json_delta", argsChunk))
                EXCEPT !.currentToolCalls[tcIndex].JSONSent = TRUE]
        ELSE S1

\* the "function" part of a delta.tool_calls entry, handlers.go 868-977
HandleFunctionData(S, tcIndex, entry, now) ==
    LET S1 == IF entry.name # ""
              THEN [S EXCEPT !.currentToolCalls[tcIndex].Name = entry.name] ELSE S
        tc == S1.currentToolCalls[tcIndex]
        starting == tc.Name # "" /\ ~tc.Started
        id == IF tc.ID = "" THEN GenerateToolID(now, tcIndex) ELSE tc.ID
        S2 == IF starting THEN [S1 EXCEPT !.currentToolCalls[tcIndex].ID = id] ELSE S1
    IN  IF starting /\ AlreadyProcessed(S2, id) THEN S2
        ELSE AccumulateArgs(IF starting THEN StartToolBlock(S2, tcIndex) ELSE S2,
                            tcIndex, entry)

NoIndex == -1

\* one entry of delta.tool_calls at array position i, handlers.go 803-978
HandleToolCallEntry(S, entry, i, now) ==
    LET tcIndex == IF entry.index = NoIndex THEN i ELSE entry.index
        S1 == IF tcIndex \in DOMAIN S.currentToolCalls THEN S
              ELSE [S EXCEPT !.currentToolCalls =
                       (tcIndex :> ToolCallState("", "", "", FALSE, 0, FALSE)) @@ @]
    IN  IF entry.id # "" /\ AlreadyProcessed(S1, entry.id) THEN S1
        ELSE LET S2 == IF entry.id # ""
                       THEN [S1 EXCEPT !.currentToolCalls[tcIndex].ID = entry.id] ELSE S1
                 S3 == StartPlaceholder(S2)
             IN  IF entry.hasFunction THEN HandleFunctionData(S3, tcIndex, entry, now)
                 ELSE S3

RECURSIVE HandleToolCalls(_, _, _, _)
HandleToolCalls(S, entries, i, now) ==
    IF i >= Len(entries) THEN S
    ELSE HandleToolCalls(HandleToolCallEntry(S, entries[i + 1], i, now), entries, i + 1, now)

\* choices[0].finish_reason, handlers.go 984-996
HandleFinishReason(S, finishReason) ==
    IF finishReason = "" THEN S
    ELSE [S EXCEPT !.finalStopReason =
            CASE finishReason = "length" -> "max_tokens"
              [] finishReason \in {"tool_calls", "function_call"} -> "tool_use"
              [] finishReason = "stop" -> "end_turn"
              [] OTHER -> "end_turn"]

\* a translator that keeps the first usage it saw
HandleUsageKeepFirst(S, chunk) ==
    IF chunk.hasUsage /\ S.usageData = ZeroUsage
    THEN [S EXCEPT !.usageData = chunk.usage] ELSE S

\* chunk.usage, handlers.go 414-445
HandleUsage(S, chunk) ==
    IF chunk.hasUsage THEN [S EXCEPT !.usageData = chunk.usage] ELSE S

\* the body of the scanner loop for one "data: <json>" line whose JSON parses,
\* handlers.go 399-996
\* the unchecked type assertion choices[0].(map[string]interface{}) panics,
\* handlers.go:453
Panics(chunk) == chunk.type = "" /\ chunk.hasChoices /\ ~chunk.choiceIsMap

\* a loop body that reads the usage object before it looks at "type"
ProcessChunkUsageFirst(S, chunk, now) ==
    LET S1 == HandleUsage(S, chunk)
    IN  IF chunk.type # "" THEN writeSSEEvent(S1, ForwardedEvent(chunk.type, chunk.index))
        ELSE IF ~chunk.hasChoices \/ ~chunk.choiceIsMap \/ ~chunk.hasDelta THEN S1
        ELSE HandleFinishReason(
                 HandleToolCalls(
                     HandleContentArray(
                         HandleTextContent(
                             HandleReasoning(
                                 HandleReasoningDetails(
                                     HandleReasoningContent(S1, chunk.delta),
                                     chunk.delta),
                                 chunk.delta),
                             chunk.delta),
                         chunk.delta.contentArray, now),
                     chunk.delta.tool_calls, 0, now),
                 chunk.finish_reason)

ProcessChunk(S, chunk, now) ==
    IF chunk.type # "" THEN writeSSEEvent(S, ForwardedEvent(chunk.type, chunk.index))
    ELSE
    LET S1 == HandleUsage(S, chunk)
    IN  IF ~chunk.hasChoices \/ ~chunk.choiceIsMap \/ ~chunk.hasDelta THEN S1
        ELSE
        LET d == chunk.delta
            S2 == HandleReasoningContent(S1, d)
            S3 == HandleReasoningDetails(S2, d)
            S4 == HandleReasoning(S3, d)
            S5 == HandleTextContent(S4, d)
            S6 == HandleContentArray(S5, d.contentArray, now)
            S7 == HandleToolCalls(S6, d.tool_calls, 0, now)
        IN  HandleFinishReason(S7, chunk.finish_reason)

(***************************************************************************)
(* Finalization                                                            *)
(***************************************************************************)
\* the final input_json_delta payload, handlers.go 1062-1088
FinalToolJSON(toolData, rev) ==
    IF toolData.ArgsBuffer # "" /\ IsJSONObjectText(toolData.ArgsBuffer)
    THEN Marshal(SanitizeToolArgs(toolData.Name, Unmarshal(toolData.ArgsBuffer), rev))
    ELSE "{}"

\* the late start of a tool call that has a name, handlers.go 1031-1047
LateStartToolBlock(S, tcIndex) ==
    LET td == S.currentToolCalls[tcIndex]
    IN  writeSSEEvent([S EXCEPT !.processedToolIDs = @ \cup {td.ID},
                                !.currentToolCalls[tcIndex].ClaudeIndex = S.nextIndex,
                                !.currentToolCalls[tcIndex].Started = TRUE,
                                !.nextIndex = @ + 1],
                      BlockStart(S.nextIndex, "tool_use", td.ID, td.Name))

\* a finalization that closes the tool block before it sends the final delta
StopToolBlockStopFirst(S, tcIndex, rev) ==
    LET td == S.currentToolCalls[tcIndex]
    IN  IF td.Started /\ td.ClaudeIndex # -1
        THEN LET S1 == writeSSEEvent(S, BlockStop(td.ClaudeIndex))
             IN  IF ~td.JSONSent
                 THEN writeSSEEvent(S1, BlockDelta(td.ClaudeIndex, "input_json_delta",
                                                   FinalToolJSON(td, rev)))
                 ELSE S1
        ELSE S

\* final delta and content_block_stop of a started tool call, handlers.go 1055-1108
StopToolBlock(S, tcIndex, rev) ==
    LET td == S.currentToolCalls[tcIndex]
    IN  IF td.Started /\ td.ClaudeIndex # -1
        THEN LET S1 == IF ~td.JSONSent
                       THEN writeSSEEvent(S, BlockDelta(td.ClaudeIndex, "input_json_delta",
                                                        FinalToolJSON(td, rev)))
                       ELSE S
             IN  writeSSEEvent(S1, BlockStop(td.ClaudeIndex))
        ELSE S

\* one iteration of the loop over currentToolCalls, handlers.go 1011-1109
FinalizeToolCall(S, tcIndex, now, rev) ==
    LET td == S.currentToolCalls[tcIndex]
        late == ~td.Started /\ td.Name # ""
        id == IF td.ID = "" THEN GenerateToolID(now, tcIndex) ELSE td.ID
        S1 == IF late THEN [S EXCEPT !.currentToolCalls[tcIndex].ID = id] ELSE S
    IN  IF late /\ AlreadyProcessed(S1, id) THEN S1
        ELSE StopToolBlock(IF late THEN LateStartToolBlock(S1, tcIndex) ELSE S1,
                           tcIndex, rev)

RECURSIVE FinalizeToolCalls(_, _, _, _)
FinalizeToolCalls(S, order, now, rev) ==
    IF order = <<>> THEN S
    ELSE FinalizeToolCalls(FinalizeToolCall(S, Head(order), now, rev),
                           Tail(order), now, rev)

\* handlers.go 1002-1008
StopTextBlock(S) ==
    IF S.textBlockStarted /\ S.textBlockIndex # -1
    THEN writeSSEEvent(S, BlockStop(S.textBlockIndex)) ELSE S

\* handlers.go 1112-1118
StopThinkingBlock(S) ==
    IF S.thinkingBlockStarted /\ S.thinkingBlockHasContent /\ S.thinkingBlockIndex # -1
    THEN writeSSEEvent(S, BlockStop(S.thinkingBlockIndex)) ELSE S

\* handlers.go 1135-1149
SendMessageEnd(S) ==
    writeSSEEvent(writeSSEEvent(S, MessageDelta(S.finalStopReason, S.usageData)),
                  SimpleEvent("message_stop"))

\* scanner.Err() after the final events, handlers.go 1192-1194
ReportScannerError(S, readError) ==
    IF readError THEN writeSSEEvent(S, SimpleEvent("error")) ELSE S

\* everything after the scanner loop, handlers.go 999-1194; order is the order in
\* which "range currentToolCalls" visits the map
FinalizeStream(S, order, now, rev, readError) ==
    ReportScannerError(
        SendMessageEnd(
            StopThinkingBlock(
                FinalizeToolCalls(StopTextBlock(S), order, now, rev))),
        readError)

\* the orders in which a Go map with key set K can be iterated
MapOrders(K) ==
    {o \in [1..Cardinality(K) -> K] : \A i, j \in 1..Cardinality(K) : o[i] = o[j] => i = j}

(***************************************************************************)
(* Backend chunks the model feeds to the translator                        *)
(***************************************************************************)
\* choices[0].delta; "" and <<>> stand for an absent field
Delta(rc, rd, r, content, contentArray, toolCalls) ==
    [reasoning_content |-> rc, reasoning_details |-> rd, reasoning |-> r,
     content |-> content, contentArray |-> contentArray, tool_calls |-> toolCalls]

EmptyDelta == Delta("", <<>>, "", "", <<>>, <<>>)

\* a parsed "data:" line; type # "" is a chunk with a top-level "type" field;
\* choiceIsMap tells whether choices[0] is a JSON object
Chunk(type, index, hasUsage, usage, hasChoices, hasDelta, delta, finishReason) ==
    [type |-> type, index |-> index, hasUsage |-> hasUsage, usage |-> usage,
     hasChoices |-> hasChoices, choiceIsMap |-> TRUE, hasDelta |-> hasDelta,
     delta |-> delta, finish_reason |-> finishReason]

DeltaChunk(delta) == Chunk("", -1, FALSE, ZeroUsage, TRUE, TRUE, delta, "")

ContentBlock(type, id, name, input, text) ==
    [type |-> type, id |-> id, name |-> name, input |-> input, text |-> text]

ToolCallEntry(index, id, hasFunction, name, args, argsIsObject) ==
    [index |-> index, id |-> id, hasFunction |-> hasFunction, name |-> name,
     args |-> args, argsIsObject |-> argsIsObject]

ToolIDs == {"tA", "tB"}

ReasoningChunks ==
    { DeltaChunk(Delta("think", <<>>, "", "", <<>>, <<>>)),
      DeltaChunk(Delta("", <<[type |-> "reasoning.text", text |-> "think", summary |-> ""]>>,
                       "", "", <<>>, <<>>)),
      DeltaChunk(Delta("", <<>>, "think", "", <<>>, <<>>)) }

TextChunks == { DeltaChunk(Delta("", <<>>, "", "hi", <<>>, <<>>)) }

NativeChunks ==
    { DeltaChunk(Delta("", <<>>, "", "", <<ContentBlock("tool_use", id, "Bash", "", "")>>, <<>>))
        : id \in ToolIDs \cup {""} }
    \cup { DeltaChunk(Delta("", <<>>, "", "", <<ContentBlock("text", "", "", "", "hi")>>, <<>>)),
           DeltaChunk(Delta("", <<>>, "", "",
                            <<ContentBlock("thinking", "", "", "", "think")>>, <<>>)) }

ToolCallEntries ==
    { ToolCallEntry(i, id, f[1], f[2], f[3], FALSE) :
        i \in {NoIndex, 1}, id \in {"", "tA"},
        f \in { <<FALSE, "", "">>, <<TRUE, "Bash", "">>,
                <<TRUE, "", "{\"query\":\"ls\"}">>,
                <<TRUE, "Bash", "{\"query\":\"ls\"}">> } }

ToolCallChunks ==
    { DeltaChunk(Delta("", <<>>, "", "", <<>>, <<e>>)) : e \in ToolCallEntries }

\* <<prompt_tokens, completion_tokens>> of the usage objects in the input
UsageValues == {<<5, 2>>, <<7, 3>>}

UsageChunks == { Chunk("", -1, TRUE, u, FALSE, FALSE, EmptyDelta, "") : u \in UsageValues }

FinishChunks ==
    { Chunk("", -1, FALSE, ZeroUsage, TRUE, TRUE, EmptyDelta, fr) :
        fr \in {"stop", "tool_calls", "length", "function_call", "content_filter"} }
    \cup { Chunk("", -1, FALSE, ZeroUsage, TRUE, FALSE, EmptyDelta, "length") }

TypedChunks ==
    { Chunk(t, 7, FALSE, ZeroUsage, FALSE, FALSE, EmptyDelta, "") :
        t \in {"content_block_delta", "message_stop"} }
    \cup { Chunk("message_delta", -1, TRUE, <<9, 4>>, FALSE, FALSE, EmptyDelta, "") }

\* a chunk whose choices[0] is not an object, such as {"choices":["x"]}
BadChoiceChunks ==
    { [Chunk("", -1, FALSE, ZeroUsage, TRUE, FALSE, EmptyDelta, "")
          EXCEPT !.choiceIsMap = FALSE] }

\* data lines whose JSON holds the characters [DONE] inside a string value
DoneMarkerChunks ==
    { DeltaChunk(Delta("", <<>>, "", "type [DONE] to finish", <<>>, <<>>)) }

Chunks == ReasoningChunks \cup TextChunks \cup NativeChunks \cup ToolCallChunks
          \cup UsageChunks \cup FinishChunks \cup TypedChunks \cup BadChoiceChunks

\* time.Now().UnixNano() while line number n is processed: the clock advances
\* from one backend line to the next
Now(n) == n + 1

(***************************************************************************)
(* Actions of the translator                                               *)
(***************************************************************************)
SetState(S) ==
    /\ events' = S.events
    /\ nextIndex' = S.nextIndex
    /\ textBlockIndex' = S.textBlockIndex
    /\ thinkingBlockIndex' = S.thinkingBlockIndex
    /\ currentToolCalls' = S.currentToolCalls
    /\ processedToolIDs' = S.processedToolIDs
    /\ finalStopReason' = S.finalStopReason
    /\ usageData' = S.usageData
    /\ thinkingBlockStarted' = S.thinkingBlockStarted
    /\ thinkingBlockHasContent' = S.thinkingBlockHasContent
    /\ textBlockStarted' = S.textBlockStarted

\* handlers.go 338-366: message_start, ping, flush
SendMessageStart ==
    /\ pc = "init"
    /\ pc' = "reading"
    /\ events' = events \o <<SimpleEvent("message_start"), SimpleEvent("ping")>>
    /\ flushed' = Len(events')
    /\ UNCHANGED <<ended, nread, nextIndex, textBlockIndex, thinkingBlockIndex,
                   currentToolCalls, processedToolIDs, finalStopReason, usageData,
                   thinkingBlockStarted, thinkingBlockHasContent, textBlockStarted,
                   observed>>
    /\ UNCHANGED <<cacheVars, sanitizeVars, convertVars, requestVars, processorVars>>

\* a line the loop skips: blank, comment, no "data: " prefix, or JSON that does
\* not parse, handlers.go 369-392
SkipLine ==
    /\ pc = "reading"
    /\ nread < MaxChunks
    /\ nread' = nread + 1
    /\ UNCHANGED <<pc, ended, events, nextIndex, textBlockIndex, thinkingBlockIndex,
                   currentToolCalls, processedToolIDs, finalStopReason, usageData,
                   thinkingBlockStarted, thinkingBlockHasContent, textBlockStarted,
                   observed, flushed>>
    /\ UNCHANGED <<cacheVars, sanitizeVars, convertVars, requestVars, processorVars>>

\* the delta.tool_calls entries the loop body reaches in a chunk
EntriesOf(chunk) ==
    IF chunk.type = "" /\ chunk.hasChoices /\ chunk.choiceIsMap /\ chunk.hasDelta
    THEN chunk.delta.tool_calls ELSE <<>>

\* the string function.arguments fragments of entries i+1.. appended, per tool
\* call index, to the fragments seen before
RECURSIVE ObserveFragments(_, _, _)
ObserveFragments(frags, entries, i) ==
    IF i >= Len(entries) THEN frags
    ELSE LET entry == entries[i + 1]
             tcIndex == IF entry.index = NoIndex THEN i ELSE entry.index
             before == IF tcIndex \in DOMAIN frags THEN frags[tcIndex] ELSE ""
             after == IF entry.hasFunction /\ ~entry.argsIsObject
                      THEN before \o entry.args ELSE before
         IN  ObserveFragments((tcIndex :> after) @@ frags, entries, i + 1)

\* the tool_use blocks of delta.content the loop body reaches in a chunk
NativeToolUsesOf(chunk) ==
    IF chunk.type = "" /\ chunk.hasChoices /\ chunk.choiceIsMap /\ chunk.hasDelta
    THEN SelectSeq(chunk.delta.contentArray, LAMBDA b : b.type = "tool_use")
    ELSE <<>>

\* the <<id, name>> pairs of the tool calls of a chunk, native or not
ToolCallsNamedBy(chunk) ==
    { <<NativeToolUsesOf(chunk)[i].id, NativeToolUsesOf(chunk)[i].name>> :
        i \in DOMAIN NativeToolUsesOf(chunk) }
    \cup { <<EntriesOf(chunk)[i].id, EntriesOf(chunk)[i].name>> :
             i \in DOMAIN EntriesOf(chunk) }

\* the non-empty delta.content strings a chunk carries
TextsOf(chunk) ==
    IF /\ chunk.type = "" /\ chunk.hasChoices /\ chunk.choiceIsMap /\ chunk.hasDelta
       /\ chunk.delta.content # ""
    THEN {chunk.delta.content} ELSE {}

\* the history after one more parsed chunk: the usage object, the
\* finish_reason and the argument fragments the chunk carries in its JSON,
\* whatever the loop does with them
Observe(h, chunk) ==
    [anyUsage |-> IF chunk.hasUsage THEN chunk.usage ELSE h.anyUsage,
     untypedUsage |-> IF chunk.hasUsage /\ chunk.type = "" THEN chunk.usage
                      ELSE h.untypedUsage,
     finishSeen |-> h.finishSeen \/ chunk.finish_reason # "",
     usageAfterFinish |-> h.usageAfterFinish
                          \/ (chunk.hasUsage /\ chunk.type = "" /\ h.finishSeen),
     fragments |-> ObserveFragments(h.fragments, EntriesOf(chunk), 0),
     usedIDs |-> h.usedIDs \cup {p[1] : p \in ToolCallsNamedBy(chunk)},
     named |-> h.named \cup {p \in ToolCallsNamedBy(chunk) :
                                p[1] # "" /\ p[2] # "" /\ p[1] \notin h.usedIDs},
     lastFinish |-> IF chunk.hasChoices /\ chunk.choiceIsMap /\ chunk.finish_reason # ""
                    THEN chunk.finish_reason ELSE h.lastFinish,
     lastFinishRead |-> IF /\ chunk.type = "" /\ chunk.hasChoices /\ chunk.choiceIsMap
                           /\ chunk.hasDelta /\ chunk.finish_reason # ""
                        THEN chunk.finish_reason ELSE h.lastFinishRead,
     texts |-> h.texts \cup TextsOf(chunk),
     typed |-> IF chunk.type # "" THEN h.typed + 1 ELSE h.typed]

\* the number of events flushed when the loop body has run on a chunk: every
\* write of the body is followed by w.Flush() except the two of the
\* reasoning_content branch (handlers.go 481-502), whose events stay in the
\* buffer until a later branch of the same iteration flushes
FlushedAfter(S, chunk, now, before) ==
    LET after == ProcessChunk(S, chunk, now)
    IN  IF chunk.type # "" THEN Len(after.events)
        ELSE IF ~chunk.hasChoices \/ ~chunk.choiceIsMap \/ ~chunk.hasDelta THEN before
        ELSE LET S2 == HandleReasoningContent(HandleUsage(S, chunk), chunk.delta)
             IN  IF Len(after.events) > Len(S2.events) THEN Len(after.events)
                 ELSE before

\* one iteration of the scanner loop on a parsed chunk, handlers.go 369-997
ProcessLine ==
    /\ pc = "reading"
    /\ nread < MaxChunks
    /\ \E chunk \in Chunks :
          /\ SetState(ProcessChunk(State, chunk, Now(nread)))
          /\ flushed' = FlushedAfter(State, chunk, Now(nread), flushed)
          /\ observed' = Observe(observed, chunk)
          /\ pc' = IF Panics(chunk) THEN "panicked" ELSE pc
    /\ nread' = nread + 1
    /\ UNCHANGED ended
    /\ UNCHANGED <<cacheVars, sanitizeVars, convertVars, requestVars, processorVars>>

\* the loop ends (terminator line, end of input or read error) and the final
\* events are written, handlers.go 377-380, 999-1194
Finalize ==
    /\ pc = "reading"
    /\ \E end \in {"done", "eof", "error"}, rev \in BOOLEAN,
          order \in MapOrders(DOMAIN currentToolCalls) :
            /\ SetState(FinalizeStream(State, order, Now(nread), rev, end = "error"))
            /\ ended' = end
    /\ flushed' = Len(events')
    /\ pc' = "done"
    /\ UNCHANGED <<nread, observed>>
    /\ UNCHANGED <<cacheVars, sanitizeVars, convertVars, requestVars, processorVars>>

\* a data line that contains "[DONE]" anywhere ends the loop before it is
\* parsed, and the final events are written, handlers.go 377-380, 999-1194
BreakOnDoneMarker ==
    /\ pc = "reading"
    /\ nread < MaxChunks
    /\ \E chunk \in DoneMarkerChunks, rev \in BOOLEAN,
          order \in MapOrders(DOMAIN currentToolCalls) :
            /\ SetState(FinalizeStream(State, order, Now(nread), rev, FALSE))
            /\ observed' = [observed EXCEPT !.texts = @ \cup TextsOf(chunk)]
    /\ flushed' = Len(events')
    /\ ended' = "done"
    /\ pc' = "done"
    /\ nread' = nread + 1
    /\ UNCHANGED <<cacheVars, sanitizeVars, convertVars, requestVars, processorVars>>

NextStream == SendMessageStart \/ SkipLine \/ ProcessLine \/ BreakOnDoneMarker \/ Finalize

(***************************************************************************)
(* StreamProcessor, src/unnamed/part_006 178-840.  Its StreamState has the *)
(* fields of the translator's local state, so P below is a record of the   *)
(* shape of State.                                                         *)
(***************************************************************************)
\* part_006 311-341
sendThinkingContent(P, content) ==
    LET P1 == IF P.thinkingBlockStarted THEN P
              ELSE [writeSSEEvent(P, BlockStart(P.nextIndex, "thinking", "", ""))
                      EXCEPT !.thinkingBlockIndex = P.nextIndex,
                             !.nextIndex = P.nextIndex + 1,
                             !.thinkingBlockStarted = TRUE]
    IN  [writeSSEEvent(P1, BlockDelta(P1.thinkingBlockIndex, "thinking_delta", content))
            EXCEPT !.thinkingBlockHasContent = TRUE]

RECURSIVE sendThinkingDetails(_, _)
sendThinkingDetails(P, details) ==
    IF details = <<>> THEN P
    ELSE LET thinkingText == DetailText(Head(details))
         IN  sendThinkingDetails(IF thinkingText # ""
                                 THEN sendThinkingContent(P, thinkingText) ELSE P,
                                 Tail(details))

\* part_006 283-308
HandleThinkingDelta(P, delta) ==
    LET P1 == IF delta.reasoning_content # ""
              THEN sendThinkingContent(P, delta.reasoning_content) ELSE P
        P2 == IF delta.reasoning = "" THEN sendThinkingDetails(P1, delta.reasoning_details)
              ELSE P1
    IN  IF delta.reasoning # "" THEN sendThinkingContent(P2, delta.reasoning) ELSE P2

\* part_006 344-375
HandleTextDelta(P, content) ==
    IF content = "" THEN P
    ELSE LET P1 == IF P.textBlockStarted THEN P
                   ELSE [writeSSEEvent(P, BlockStart(P.nextIndex, "text", "", ""))
                           EXCEPT !.textBlockIndex = P.nextIndex,
                                  !.nextIndex = P.nextIndex + 1,
                                  !.textBlockStarted = TRUE]
         IN  writeSSEEvent(P1, BlockDelta(P1.textBlockIndex, "text_delta", content))

\* part_006 468-494
ensureTextBlockStarted(P) ==
    IF P.textBlockStarted THEN P
    ELSE [writeSSEEvent(writeSSEEvent(P, BlockStart(P.nextIndex, "text", "", "")),
                        BlockDelta(P.nextIndex, "text_delta", PlaceholderText))
            EXCEPT !.textBlockIndex = P.nextIndex,
                   !.nextIndex = P.nextIndex + 1,
                   !.textBlockStarted = TRUE]

\* part_006 400-465: the index is taken once when the state is created and
\* once more after ensureTextBlockStarted, whether or not a text block was
\* opened there
handleToolUseFromContentArray(P, block, now) ==
    LET toolID == IF block.id = "" THEN NativeToolID(now) ELSE block.id
    IN  IF toolID \in P.processedToolIDs THEN P
        ELSE
        LET tcIndex == Cardinality(DOMAIN P.currentToolCalls)
            inputJSON == IF block.input = "" THEN "{}" ELSE block.input
            P1 == [P EXCEPT
                     !.processedToolIDs = @ \cup {toolID},
                     !.currentToolCalls =
                         (tcIndex :> ToolCallState(toolID, block.name, inputJSON,
                                                   FALSE, P.nextIndex, TRUE)) @@ @,
                     !.nextIndex = @ + 1]
            P2 == ensureTextBlockStarted(P1)
            P3 == [P2 EXCEPT !.currentToolCalls[tcIndex].ClaudeIndex = P2.nextIndex,
                             !.nextIndex = P2.nextIndex + 1]
        IN  writeSSEEvent(P3, BlockStart(P3.currentToolCalls[tcIndex].ClaudeIndex,
                                         "tool_use", toolID, block.name))

\* StreamProcessor.HandleContentArray, part_006 378-397
RECURSIVE ProcessorHandleContentArray(_, _, _)
ProcessorHandleContentArray(P, blocks, now) ==
    IF blocks = <<>> THEN P
    ELSE LET block == Head(blocks)
             P1 == CASE block.type = "tool_use" ->
                            handleToolUseFromContentArray(P, block, now)
                      [] block.type = "text" -> HandleTextDelta(P, block.text)
                      [] block.type = "thinking" ->
                            IF block.text # "" THEN sendThinkingContent(P, block.text)
                            ELSE P
                      [] OTHER -> P
         IN  ProcessorHandleContentArray(P1, Tail(blocks), now)

\* part_006 609-637: the arguments are accumulated, nothing is written
extractToolArgs(P, tcIndex, entry) ==
    IF entry.args = "" THEN P
    ELSE [P EXCEPT !.currentToolCalls[tcIndex].ArgsBuffer =
                      IF entry.argsIsObject THEN entry.args ELSE @ \o entry.args]

\* part_006 555-606
processToolCallFunction(P, tcIndex, entry, now) ==
    LET P1 == IF entry.name # ""
              THEN [P EXCEPT !.currentToolCalls[tcIndex].Name = entry.name] ELSE P
        toolCall == P1.currentToolCalls[tcIndex]
        starting == toolCall.Name # "" /\ ~toolCall.Started
        id == IF toolCall.ID = "" THEN GenerateToolID(now, tcIndex) ELSE toolCall.ID
        P2 == IF starting THEN [P1 EXCEPT !.currentToolCalls[tcIndex].ID = id] ELSE P1
        P3 == [P2 EXCEPT !.processedToolIDs = @ \cup {id},
                         !.currentToolCalls[tcIndex].ClaudeIndex = P2.nextIndex,
                         !.currentToolCalls[tcIndex].Started = TRUE,
                         !.nextIndex = @ + 1]
    IN  IF ~starting THEN extractToolArgs(P2, tcIndex, entry)
        ELSE IF id \in P2.processedToolIDs THEN P2
        ELSE extractToolArgs(
                 writeSSEEvent(P3, BlockStart(P2.nextIndex, "tool_use", id, toolCall.Name)),
                 tcIndex, entry)

\* one entry of the loop of HandleToolCallsDelta, part_006 508-551
HandleToolCallDelta(P, entry, i, now) ==
    LET tcIndex == IF entry.index = NoIndex THEN i ELSE entry.index
        P1 == IF tcIndex \in DOMAIN P.currentToolCalls THEN P
              ELSE [P EXCEPT !.currentToolCalls =
                       (tcIndex :> ToolCallState("", "", "", FALSE, 0, FALSE)) @@ @]
    IN  IF entry.id # "" /\ entry.id \in P1.processedToolIDs THEN P1
        ELSE LET P2 == IF entry.id # ""
                       THEN [P1 EXCEPT !.currentToolCalls[tcIndex].ID = entry.id] ELSE P1
                 P3 == ensureTextBlockStarted(P2)
             IN  IF entry.hasFunction THEN processToolCallFunction(P3, tcIndex, entry, now)
                 ELSE P3

\* part_006 497-552
RECURSIVE HandleToolCallsDelta(_, _, _, _)
HandleToolCallsDelta(P, entries, i, now) ==
    IF i >= Len(entries) THEN P
    ELSE HandleToolCallsDelta(HandleToolCallDelta(P, entries[i + 1], i, now),
                              entries, i + 1, now)

\* part_006 801-838; the payload is computed as in FinalToolJSON
sendFinalToolArgs(P, toolData, rev) ==
    writeSSEEvent(P, BlockDelta(toolData.ClaudeIndex, "input_json_delta",
                                FinalToolJSON(toolData, rev)))

\* part_006 747-798
finalizeToolCall(P, tcIndex, now, rev) ==
    LET toolData == P.currentToolCalls[tcIndex]
        late == ~toolData.Started /\ toolData.Name # ""
        id == IF toolData.ID = "" THEN GenerateToolID(now, tcIndex) ELSE toolData.ID
        P1 == IF late THEN [P EXCEPT !.currentToolCalls[tcIndex].ID = id] ELSE P
        P2 == IF late
              THEN writeSSEEvent([P1 EXCEPT !.processedToolIDs = @ \cup {id},
                                            !.currentToolCalls[tcIndex].ClaudeIndex =
                                                P1.nextIndex,
                                            !.currentToolCalls[tcIndex].Started = TRUE,
                                            !.nextIndex = @ + 1],
                                 BlockStart(P1.nextIndex, "tool_use", id, toolData.Name))
              ELSE P1
        started == P2.currentToolCalls[tcIndex]
    IN  IF late /\ id \in P1.processedToolIDs THEN P1
        ELSE IF started.Started /\ started.ClaudeIndex # -1
             THEN writeSSEEvent(sendFinalToolArgs(P2, started, rev),
                                BlockStop(started.ClaudeIndex))
             ELSE P2

RECURSIVE finalizeToolCalls(_, _, _, _)
finalizeToolCalls(P, order, now, rev) ==
    IF order = <<>> THEN P
    ELSE finalizeToolCalls(finalizeToolCall(P, Head(order), now, rev),
                           Tail(order), now, rev)

\* part_006 688-744; order is the order in which the map is ranged over
FinalizeBlocks(P, order, now, rev) ==
    LET P1 == IF P.textBlockStarted /\ P.textBlockIndex # -1
              THEN writeSSEEvent(P, BlockStop(P.textBlockIndex)) ELSE P
        P2 == finalizeToolCalls(P1, order, now, rev)
        P3 == IF /\ P2.thinkingBlockStarted /\ P2.thinkingBlockHasContent
                 /\ P2.thinkingBlockIndex # -1
              THEN writeSSEEvent(P2, BlockStop(P2.thinkingBlockIndex)) ELSE P2
    IN  writeSSEEvent(writeSSEEvent(P3, MessageDelta(P3.finalStopReason, P3.usageData)),
                      SimpleEvent("message_stop"))

\* the Handle* methods called for one delta, in the order in which the loop
\* of streamOpenAIToClaude looks at the fields of the delta
HandleDelta(P, delta, now) ==
    HandleToolCallsDelta(
        ProcessorHandleContentArray(
            HandleTextDelta(HandleThinkingDelta(P, delta), delta.content),
            delta.contentArray, now),
        delta.tool_calls, 0, now)

\* the deltas both implementations are driven with
ProcessorChunks ==
    { DeltaChunk(Delta("think", <<>>, "", "", <<>>, <<>>)) }
    \cup TextChunks \cup NativeChunks
    \cup { c \in ToolCallChunks : c.delta.tool_calls[1].index = NoIndex }

\* both implementations write message_start and ping, handlers.go 338-366 and
\* part_006 250-280
StartBoth ==
    /\ pc = "init"
    /\ pc' = "reading"
    /\ events' = events \o <<SimpleEvent("message_start"), SimpleEvent("ping")>>
    /\ processor' = [processor EXCEPT
                       !.events = @ \o <<SimpleEvent("message_start"), SimpleEvent("ping")>>]
    /\ flushed' = Len(events')
    /\ UNCHANGED <<ended, nread, nextIndex, textBlockIndex, thinkingBlockIndex,
                   currentToolCalls, processedToolIDs, finalStopReason, usageData,
                   thinkingBlockStarted, thinkingBlockHasContent, textBlockStarted,
                   observed>>
    /\ UNCHANGED <<cacheVars, sanitizeVars, convertVars, requestVars>>

\* the same delta goes through the loop body of streamOpenAIToClaude and
\* through the Handle* methods of the StreamProcessor
DeltaToBoth ==
    /\ pc = "reading"
    /\ nread < MaxChunks
    /\ \E chunk \in ProcessorChunks :
          /\ SetState(ProcessChunk(State, chunk, Now(nread)))
          /\ flushed' = FlushedAfter(State, chunk, Now(nread), flushed)
          /\ observed' = Observe(observed, chunk)
          /\ processor' = HandleDelta(processor, chunk.delta, Now(nread))
    /\ nread' = nread + 1
    /\ UNCHANGED <<pc, ended>>
    /\ UNCHANGED <<cacheVars, sanitizeVars, convertVars, requestVars>>

\* the stream ends: the finalization of streamOpenAIToClaude and FinalizeBlocks
FinalizeBoth ==
    /\ pc = "reading"
    /\ \E rev \in BOOLEAN, order \in MapOrders(DOMAIN currentToolCalls),
          porder \in MapOrders(DOMAIN processor.currentToolCalls) :
            /\ SetState(FinalizeStream(State, order, Now(nread), rev, FALSE))
            /\ processor' = FinalizeBlocks(processor, porder, Now(nread), rev)
    /\ ended' = "done"
    /\ flushed' = Len(events')
    /\ pc' = "done"
    /\ UNCHANGED <<nread, observed>>
    /\ UNCHANGED <<cacheVars, sanitizeVars, convertVars, requestVars>>

NextProcessor == StartBoth \/ DeltaToBoth \/ FinalizeBoth


(***************************************************************************)
(* Capability cache, config.go                                             *)
(***************************************************************************)
BaseURLs == {"https://a.example/v1", "https://b.example/v1"}

BackendModels == {"gpt-5"}

CacheKey(baseURL, model) == <<baseURL, model>>

CacheKeys == {CacheKey(b, m) : b \in BaseURLs, m \in BackendModels}

\* config.go 190-194; nil is a key outside the domain
HasCapabilities(cache, key) == key \in DOMAIN cache

\* a cache that records by model string alone
SetModelCapabilitiesByModel(cache, key, uses) ==
    [k \in {CacheKey(b, key[2]) : b \in BaseURLs} |->
        [UsesMaxCompletionTokens |-> uses]] @@ cache

\* config.go 199-204 (LastChecked is not modelled)
SetModelCapabilities(cache, key, uses) ==
    (key :> [UsesMaxCompletionTokens |-> uses]) @@ cache

\* a cache that answers false on a miss
ShouldUseMaxCompletionTokensMissFalse(cache, baseURL, modelName) ==
    LET key == CacheKey(baseURL, modelName)
    IN  IF HasCapabilities(cache, key) THEN cache[key].UsesMaxCompletionTokens
        ELSE FALSE

\* config.go 209-234
ShouldUseMaxCompletionTokens(cache, baseURL, modelName) ==
    LET key == CacheKey(baseURL, modelName)
    IN  IF HasCapabilities(cache, key) THEN cache[key].UsesMaxCompletionTokens
        ELSE TRUE

(***************************************************************************)
(* Token-limit parameter of the outbound request                           *)
(***************************************************************************)
OpenAIRequest(model, maxTokens, maxCompletionTokens) ==
    [Model |-> model, MaxTokens |-> maxTokens,
     MaxCompletionTokens |-> maxCompletionTokens]

\* a conversion that always sets max_tokens and adds max_completion_tokens
ConvertRequestBoth(cache, baseURL, openaiModel, claudeMaxTokens) ==
    IF claudeMaxTokens > 0
    THEN IF ShouldUseMaxCompletionTokens(cache, baseURL, openaiModel)
         THEN OpenAIRequest(openaiModel, claudeMaxTokens, claudeMaxTokens)
         ELSE OpenAIRequest(openaiModel, claudeMaxTokens, 0)
    ELSE OpenAIRequest(openaiModel, 0, 0)

\* converter.go 151-163
ConvertRequest(cache, baseURL, openaiModel, claudeMaxTokens) ==
    IF claudeMaxTokens > 0
    THEN IF ShouldUseMaxCompletionTokens(cache, baseURL, openaiModel)
         THEN OpenAIRequest(openaiModel, 0, claudeMaxTokens)
         ELSE OpenAIRequest(openaiModel, claudeMaxTokens, 0)
    ELSE OpenAIRequest(openaiModel, 0, 0)

\* a retry that clears max_completion_tokens only
RetryRequestKeepMaxTokens(r) == [r EXCEPT !.MaxCompletionTokens = 0]

\* the request copy the retry sends, handlers.go 1264-1266 and 1374-1376
RetryRequest(r) == [r EXCEPT !.MaxCompletionTokens = 0, !.MaxTokens = 0]

\* max_tokens values of inbound requests
ClaudeMaxTokens == {0, 128}

\* error texts a failed backend call returns, with the keywords that
\* strings.Contains finds in their lowercase form
ErrorKeywords ==
    ( "Unsupported parameter: max_completion_tokens" :>
          {"unsupported", "parameter", "max_completion_tokens"} ) @@
    ( "Invalid value for max_tokens" :> {"invalid", "max_tokens"} ) @@
    ( "max_tokens is too large" :> {"max_tokens"} ) @@
    ( "invalid api key" :> {"invalid"} ) @@
    ( "rate limit exceeded" :> {} )

ErrorTexts == DOMAIN ErrorKeywords

\* handlers.go 1354-1368
isMaxTokensParameterError(errorMessage) ==
    LET found == ErrorKeywords[errorMessage]
        hasParamIndicator == "parameter" \in found \/ "unsupported" \in found
                             \/ "invalid" \in found
        hasOurParam == "max_tokens" \in found \/ "max_completion_tokens" \in found
    IN  hasParamIndicator /\ hasOurParam

(***************************************************************************)
(* Requests: handleMessages, callOpenAI, callOpenAIStream                  *)
(***************************************************************************)
Handlers == {1, 2}

\* values of cfg.AnthropicAPIKey and of the x-api-key header
AnthropicAPIKeys == {"", "sk-proxy"}

APIKeyHeaders == {"sk-proxy", "sk-other"}

\* the JSON error body of fiber.Map{"type": "error", "error": {...}}
ErrorResponse(status, errorType) ==
    [status |-> status, type |-> "error", errorType |-> errorType]

NoErrorResponse == [status |-> 0, type |-> "", errorType |-> ""]

\* handleMessages before the conversion: the body is parsed, then the key is
\* compared, handlers.go 39-65
RejectionOf(bodyParses, cfgKey, apiKey) ==
    IF ~bodyParses THEN ErrorResponse(400, "invalid_request_error")
    ELSE IF cfgKey # "" /\ apiKey # cfgKey
         THEN ErrorResponse(401, "authentication_error")
         ELSE NoErrorResponse

\* status codes of backend responses other than 200
BackendStatuses == {401, 429}

\* errors.FromHTTPStatus, the taxonomy type of a backend status code
FromHTTPStatus(statusCode) ==
    CASE statusCode = 400 -> "invalid_request_error"
      [] statusCode = 401 -> "authentication_error"
      [] statusCode = 403 -> "permission_error"
      [] statusCode = 404 -> "not_found_error"
      [] statusCode = 429 -> "rate_limit_error"
      [] statusCode = 503 -> "overloaded_error"
      [] statusCode = 504 -> "timeout_error"
      [] statusCode = 502 -> "connection_error"
      [] OTHER -> "api_error"

\* what the client gets when the backend call returns an error: the JSON body
\* of handlers.go 163-171 with status 500, or the SSE error event of
\* writeSSEError in the stream whose status is already 200
SurfacedError(stream) == ErrorResponse(IF stream THEN 200 ELSE 500, "api_error")

IdleRequest ==
    [pc |-> "idle", baseURL |-> "", stream |-> FALSE, maxTokens |-> 0,
     openaiReq |-> OpenAIRequest("", 0, 0), sent |-> <<>>, afterRetry |-> FALSE,
     result |-> "", bodyParses |-> TRUE, apiKey |-> "",
     response |-> NoErrorResponse, backendStatus |-> 0]

CacheInit ==
    /\ modelCapabilityCache = [k \in {} |-> 0]
    /\ anthropicAPIKey \in AnthropicAPIKeys
    /\ req = [h \in Handlers |-> IdleRequest]
    /\ received = 0
    /\ retriedKeys = {}

\* the cache and the handlers while no request is served
CacheIdle ==
    /\ modelCapabilityCache = [k \in {} |-> 0]
    /\ anthropicAPIKey = ""
    /\ req = [h \in Handlers |-> IdleRequest]
    /\ received = 0
    /\ retriedKeys = {}

KeyOf(r) == CacheKey(r.baseURL, r.openaiReq.Model)

\* handleMessages returns before the conversion, with 400 for a body that
\* does not parse or 401 for a wrong key, handlers.go 39-65
RejectRequest(h) ==
    /\ req[h].pc \in {"idle", "done"}
    /\ received < MaxRequests
    /\ \E bodyParses \in BOOLEAN, apiKey \in APIKeyHeaders :
          LET rejection == RejectionOf(bodyParses, anthropicAPIKey, apiKey)
          IN  /\ rejection # NoErrorResponse
              /\ req' = [req EXCEPT ![h] =
                            [IdleRequest EXCEPT !.pc = "done", !.result = "error",
                                                !.bodyParses = bodyParses,
                                                !.apiKey = apiKey,
                                                !.response = rejection]]
    /\ received' = received + 1
    /\ UNCHANGED <<modelCapabilityCache, anthropicAPIKey, retriedKeys>>
    /\ UNCHANGED <<streamVars, sanitizeVars, convertVars, requestVars, processorVars>>

\* handleMessages up to the first backend call: the body parses and the key is
\* accepted, ConvertRequest reads the cache and the request is sent,
\* handlers.go 39-68, 155-163, 1220, 1256
ReceiveRequest(h) ==
    /\ req[h].pc \in {"idle", "done"}
    /\ received < MaxRequests
    /\ \E baseURL \in BaseURLs, model \in BackendModels,
          maxTokens \in ClaudeMaxTokens, stream \in BOOLEAN,
          apiKey \in APIKeyHeaders :
          LET openaiReq == ConvertRequest(modelCapabilityCache, baseURL, model, maxTokens)
          IN  /\ RejectionOf(TRUE, anthropicAPIKey, apiKey) = NoErrorResponse
              /\ req' = [req EXCEPT ![h] =
                            [pc |-> "first", baseURL |-> baseURL, stream |-> stream,
                             maxTokens |-> maxTokens, openaiReq |-> openaiReq,
                             sent |-> <<openaiReq>>,
                             afterRetry |-> CacheKey(baseURL, model) \in retriedKeys,
                             result |-> "", bodyParses |-> TRUE, apiKey |-> apiKey,
                             response |-> NoErrorResponse, backendStatus |-> 0]]
    /\ received' = received + 1
    /\ UNCHANGED <<modelCapabilityCache, anthropicAPIKey, retriedKeys>>
    /\ UNCHANGED <<streamVars, sanitizeVars, convertVars, requestVars, processorVars>>

\* the first attempt succeeds, handlers.go 1234-1249 and 1282-1296
FirstAttemptSucceeds(h) ==
    /\ req[h].pc = "first"
    /\ modelCapabilityCache' =
          IF req[h].openaiReq.MaxCompletionTokens > 0
          THEN SetModelCapabilities(modelCapabilityCache, KeyOf(req[h]), TRUE)
          ELSE modelCapabilityCache
    /\ req' = [req EXCEPT ![h].pc = "done", ![h].result = "ok"]
    /\ UNCHANGED <<anthropicAPIKey, received, retriedKeys>>
    /\ UNCHANGED <<streamVars, sanitizeVars, convertVars, requestVars, processorVars>>

\* the first attempt fails with a max-tokens parameter error: the capability
\* is cached as false and the retry is sent, handlers.go 1221-1229, 1372-1392
\* and 1257-1277
FirstAttemptRetries(h) ==
    /\ req[h].pc = "first"
    /\ \E err \in ErrorTexts : isMaxTokensParameterError(err)
    /\ modelCapabilityCache' =
          SetModelCapabilities(modelCapabilityCache, KeyOf(req[h]), FALSE)
    /\ req' = [req EXCEPT ![h].pc = "retry",
                          ![h].sent = Append(@, RetryRequest(req[h].openaiReq))]
    /\ retriedKeys' = retriedKeys \cup {KeyOf(req[h])}
    /\ UNCHANGED <<anthropicAPIKey, received>>
    /\ UNCHANGED <<streamVars, sanitizeVars, convertVars, requestVars, processorVars>>

\* the first attempt fails with another error, which is returned and written
\* to the client, handlers.go 1230-1231, 1279, 163-171 and 266-271
FirstAttemptFails(h) ==
    /\ req[h].pc = "first"
    /\ \E err \in ErrorTexts : ~isMaxTokensParameterError(err)
    /\ \E status \in BackendStatuses :
          req' = [req EXCEPT ![h].pc = "done", ![h].result = "error",
                             ![h].backendStatus = status,
                             ![h].response = SurfacedError(req[h].stream)]
    /\ UNCHANGED <<modelCapabilityCache, anthropicAPIKey, received, retriedKeys>>
    /\ UNCHANGED <<streamVars, sanitizeVars, convertVars, requestVars, processorVars>>

\* a retry that is sent once more when it fails
RetryReturnsAndResends(h) ==
    /\ req[h].pc = "retry"
    /\ \/ \E outcome \in {"ok", "error"} :
             req' = [req EXCEPT ![h].pc = "done", ![h].result = outcome]
       \/ /\ Len(req[h].sent) < 3
          /\ req' = [req EXCEPT ![h].sent = Append(@, RetryRequest(req[h].openaiReq))]
    /\ UNCHANGED <<modelCapabilityCache, anthropicAPIKey, received, retriedKeys>>
    /\ UNCHANGED <<streamVars, sanitizeVars, convertVars, requestVars, processorVars>>

\* the retry returns, with a response or with any error, which is written to
\* the client, handlers.go 1277, 1392, 163-171 and 266-271
RetryReturns(h) ==
    /\ req[h].pc = "retry"
    /\ \/ req' = [req EXCEPT ![h].pc = "done", ![h].result = "ok"]
       \/ \E status \in BackendStatuses :
             req' = [req EXCEPT ![h].pc = "done", ![h].result = "error",
                                ![h].backendStatus = status,
                                ![h].response = SurfacedError(req[h].stream)]
    /\ UNCHANGED <<modelCapabilityCache, anthropicAPIKey, received, retriedKeys>>
    /\ UNCHANGED <<streamVars, sanitizeVars, convertVars, requestVars, processorVars>>

NextCache ==
    \E h \in Handlers :
        \/ RejectRequest(h)
        \/ ReceiveRequest(h)
        \/ FirstAttemptSucceeds(h)
        \/ FirstAttemptRetries(h)
        \/ FirstAttemptFails(h)
        \/ RetryReturns(h)

(***************************************************************************)
(* Calls of the sanitizers                                                 *)
(***************************************************************************)
ToolNames ==
    {"Bash", "Edit", "Read", "Write", "Grep", "Glob", "LSP", "Task", "TodoWrite",
     "WebFetch", "WebSearch", "Skill", "AskUserQuestion", "NotebookEdit", "Other"}

\* values of a query-like key: plain strings, JSON-encoded objects, objects
QueryValues ==
    { JString("ls"), JString(""), JString("[]"),
      JString("{\"command\":\"ls\"}"),
      JString("{\"command\":\"ls\",\"query\":\"ls\"}"),
      JObject("command" :> JString("ls")),
      JObject(("command" :> JString("ls")) @@ ("query" :> JString("ls"))) }

\* arguments without a query-like key
BaseMaps == {EmptyMap, "command" :> JString("pwd"), "file_path" :> JString("a.txt")}

ArgMaps ==
    BaseMaps
    \cup { Put(b, "query", q) : b \in BaseMaps, q \in QueryValues }
    \cup { Put(Put(b, "query", q), "Query", JString("x")) :
             b \in BaseMaps, q \in QueryValues }

\* argument texts: empty, blank, the empty object, null, objects, other JSON
ArgTexts ==
    {"", " ", "{}", " {} ", "null", "ls", "[]",
     "{\"query\":\"ls\"}", "{\"command\":\"ls\"}"}

ArgValues ==
    {JNull} \cup {JObject(m) : m \in ArgMaps} \cup {JString(t) : t \in ArgTexts}
    \cup {JArray("[]")}

Sanitizers == {"SanitizeToolArgs", "sanitizeToolInput", "sanitizeToolInputFromInterface"}

NotCalled == [kind |-> "none", str |-> "", obj |-> EmptyMap]

SanitizeInit ==
    /\ toolName \in ToolNames
    /\ toolArgs \in ArgValues
    /\ sanitized = [f \in Sanitizers |-> NotCalled]

\* SanitizeToolArgs is called with a map, nil or not
CallSanitizeToolArgs ==
    /\ toolArgs.kind \in {"object", "null"}
    /\ sanitized["SanitizeToolArgs"] = NotCalled
    /\ \E rev \in BOOLEAN :
          sanitized' = [sanitized EXCEPT !["SanitizeToolArgs"] =
                           SanitizeToolArgsOfMap(toolName, toolArgs, rev)]
    /\ UNCHANGED <<toolName, toolArgs>>
    /\ UNCHANGED <<streamVars, cacheVars, convertVars, requestVars, processorVars>>

\* sanitizeToolInput is called with the arguments string of a tool call,
\* converter.go:518
CallSanitizeToolInput ==
    /\ toolArgs.kind = "string"
    /\ sanitized["sanitizeToolInput"] = NotCalled
    /\ \E rev \in BOOLEAN :
          sanitized' = [sanitized EXCEPT !["sanitizeToolInput"] =
                           sanitizeToolInput(toolName, toolArgs.str, rev)]
    /\ UNCHANGED <<toolName, toolArgs>>
    /\ UNCHANGED <<streamVars, cacheVars, convertVars, requestVars, processorVars>>

\* sanitizeToolInputFromInterface is called with the input of a native
\* tool_use block, converter.go:499
CallSanitizeToolInputFromInterface ==
    /\ sanitized["sanitizeToolInputFromInterface"] = NotCalled
    /\ \E rev \in BOOLEAN :
          sanitized' = [sanitized EXCEPT !["sanitizeToolInputFromInterface"] =
                           sanitizeToolInputFromInterface(toolName, toolArgs, rev)]
    /\ UNCHANGED <<toolName, toolArgs>>
    /\ UNCHANGED <<streamVars, cacheVars, convertVars, requestVars, processorVars>>

NextSanitize ==
    CallSanitizeToolArgs \/ CallSanitizeToolInput \/ CallSanitizeToolInputFromInterface

(***************************************************************************)
(* convertMessages, converter.go 222-357                                   *)
(***************************************************************************)
\* number of messages of one request
MaxMessages == 2

\* a content block of a Claude message
ClaudeBlock(type, id, name, input, text, toolUseID, content) ==
    [type |-> type, id |-> id, name |-> name, input |-> input, text |-> text,
     tool_use_id |-> toolUseID, content |-> content]

\* kind is "string", "blocks" or "other" (content of another JSON type)
ClaudeMessage(role, kind, text, blocks) ==
    [Role |-> role, kind |-> kind, text |-> text, blocks |-> blocks]

OpenAIToolCall(id, name, arguments) == [ID |-> id, Name |-> name, Arguments |-> arguments]

OpenAIMessage(role, content, toolCalls, toolCallID) ==
    [Role |-> role, Content |-> content, ToolCalls |-> toolCalls, ToolCallID |-> toolCallID]

\* strings.Join(parts, "\n")
RECURSIVE JoinLines(_)
JoinLines(parts) ==
    IF parts = <<>> THEN ""
    ELSE IF Len(parts) = 1 THEN parts[1]
    ELSE parts[1] \o "\n" \o JoinLines(Tail(parts))

\* a conversion that gives every tool call a fresh id
ToolUseIDAlwaysNew(block, clock) == NativeToolID(clock)

\* the id of a tool_use block, generated when empty, converter.go 272-278
ToolUseID(block, clock) == IF block.id = "" THEN NativeToolID(clock) ELSE block.id

\* one tool_use block as a tool call, converter.go 270-297; clock is the
\* value of time.Now().UnixNano() when the block is converted
ConvertToolUse(block, clock) ==
    OpenAIToolCall(ToolUseID(block, clock), block.name,
                   IF block.input = "" THEN "{}" ELSE block.input)

\* one tool_result block as a role=tool message, converter.go 299-325
ConvertToolResult(block) == OpenAIMessage("tool", block.content, <<>>, block.tool_use_id)

\* the tool calls of the tool_use blocks from position i on
RECURSIVE ToolCallsOf(_, _, _, _)
ToolCallsOf(blocks, i, now, tick) ==
    IF i > Len(blocks) THEN <<>>
    ELSE IF blocks[i].type = "tool_use"
         THEN <<ConvertToolUse(blocks[i], now + tick * i)>>
              \o ToolCallsOf(blocks, i + 1, now, tick)
         ELSE ToolCallsOf(blocks, i + 1, now, tick)

\* the role=tool messages of the tool_result blocks
RECURSIVE ToolMessagesOf(_)
ToolMessagesOf(blocks) ==
    IF blocks = <<>> THEN <<>>
    ELSE IF Head(blocks).type = "tool_result"
         THEN <<ConvertToolResult(Head(blocks))>> \o ToolMessagesOf(Tail(blocks))
         ELSE ToolMessagesOf(Tail(blocks))

\* the texts of the text blocks
RECURSIVE TextPartsOf(_)
TextPartsOf(blocks) ==
    IF blocks = <<>> THEN <<>>
    ELSE IF Head(blocks).type = "text"
         THEN <<Head(blocks).text>> \o TextPartsOf(Tail(blocks))
         ELSE TextPartsOf(Tail(blocks))

\* the messages one Claude message becomes, converter.go 235-352
ConvertMessage(msg, now, tick) ==
    CASE msg.kind = "string" -> <<OpenAIMessage(msg.Role, msg.text, <<>>, "")>>
      [] msg.kind = "blocks" ->
            LET hasToolResult == \E i \in 1..Len(msg.blocks) :
                                    msg.blocks[i].type = "tool_result"
                textParts == TextPartsOf(msg.blocks)
                toolCalls == ToolCallsOf(msg.blocks, 1, now, tick)
            IN  ToolMessagesOf(msg.blocks)
                \o (IF (Len(textParts) > 0 \/ Len(toolCalls) > 0) /\ ~hasToolResult
                    THEN <<OpenAIMessage(msg.Role, JoinLines(textParts), toolCalls, "")>>
                    ELSE <<>>)
      [] OTHER -> <<OpenAIMessage(msg.Role, "<other>", <<>>, "")>>

RECURSIVE ConvertEach(_, _, _, _)
ConvertEach(msgs, i, now, tick) ==
    IF i > Len(msgs) THEN <<>>
    ELSE ConvertMessage(msgs[i], now + tick * 10 * i, tick)
         \o ConvertEach(msgs, i + 1, now, tick)

\* converter.go 222-357
convertMessages(msgs, systemText, now, tick) ==
    (IF systemText # "" THEN <<OpenAIMessage("system", systemText, <<>>, "")>> ELSE <<>>)
    \o ConvertEach(msgs, 1, now, tick)

\* the content blocks of the requests of the model
ClaudeBlocks ==
    { ClaudeBlock("text", "", "", "", "hi", "", "") }
    \cup { ClaudeBlock("tool_use", id, "Bash", "{\"command\":\"ls\"}", "", "", "") :
             id \in {"", "tA"} }
    \cup { ClaudeBlock("tool_result", "", "", "", "", id, "done") : id \in {"", "tA", "tB"} }

BlockLists ==
    {<<>>} \cup {<<b>> : b \in ClaudeBlocks} \cup {<<a, b>> : a, b \in ClaudeBlocks}

\* tool_use blocks come in assistant messages, everything else in user messages
RoleOf(blocks) ==
    IF \E i \in 1..Len(blocks) : blocks[i].type = "tool_use" THEN "assistant" ELSE "user"

ClaudeMessages ==
    { ClaudeMessage(r, "string", "hello", <<>>) : r \in {"user", "assistant"} }
    \cup { ClaudeMessage(r, "other", "", <<>>) : r \in {"user", "system"} }
    \cup { ClaudeMessage(RoleOf(bs), "blocks", "", bs) : bs \in BlockLists }

MessageLists ==
    UNION { [1..n -> ClaudeMessages] : n \in 0..MaxMessages }

ConvertInit ==
    /\ claudeMessages \in MessageLists
    /\ system \in {"", "be brief"}
    /\ openaiMessages = <<>>
    /\ converted = {}

\* no converter function is involved
ConvertIdle ==
    /\ claudeMessages = <<>>
    /\ system = ""
    /\ openaiMessages = <<>>
    /\ openaiResp = [hasChoices |-> FALSE, ReasoningDetails |-> <<>>, contentKind |-> "nil",
                     contentStr |-> "", contentArr |-> <<>>, ToolCalls |-> <<>>,
                     FinishReason |-> "", Usage |-> <<0, 0>>]
    /\ claudeResp = [ok |-> FALSE, Content |-> <<>>, StopReason |-> "", Usage |-> <<0, 0>>]
    /\ converted = {}

\* no sanitizer is involved
SanitizeIdle ==
    /\ toolName = "Bash"
    /\ toolArgs = JNull
    /\ sanitized = [f \in Sanitizers |-> NotCalled]

\* ConvertRequest calls convertMessages, converter.go:104
CallConvertMessages ==
    /\ "convertMessages" \notin converted
    /\ \E now \in {1}, tick \in {0, 1} :
          openaiMessages' = convertMessages(claudeMessages, system, now, tick)
    /\ converted' = converted \cup {"convertMessages"}
    /\ UNCHANGED <<claudeMessages, system, openaiResp, claudeResp>>
    /\ UNCHANGED <<streamVars, cacheVars, sanitizeVars, requestVars, processorVars>>

\* the fixed instruction text of handlers.go 82-118, abbreviated
Instruction == "\n\n[CRITICAL TOOL PARAMETER REQUIREMENTS - READ CAREFULLY] ..."

\* contentStr, _ := Content.(string): the empty string for a content that is
\* not a string, handlers.go:123
ContentString(content) == IF content = "<other>" THEN "" ELSE content

\* an injection that replaces the text of the system message
InjectInstructionReplace(messages) ==
    IF Len(messages) = 0 THEN messages
    ELSE IF messages[1].Role = "system"
         THEN [messages EXCEPT ![1].Content = Instruction]
         ELSE <<OpenAIMessage("system", Instruction, <<>>, "")>> \o messages

\* handlers.go 81-131
InjectInstruction(messages) ==
    IF Len(messages) = 0 THEN messages
    ELSE IF messages[1].Role = "system"
         THEN [messages EXCEPT ![1].Content = ContentString(@) \o Instruction]
         ELSE <<OpenAIMessage("system", Instruction, <<>>, "")>> \o messages

\* handleMessages injects the instruction into the messages of the converted
\* request, handlers.go 79-131
CallInjectInstruction ==
    /\ "convertMessages" \in converted
    /\ "InjectInstruction" \notin converted
    /\ openaiMessages' = InjectInstruction(openaiMessages)
    /\ converted' = converted \cup {"InjectInstruction"}
    /\ UNCHANGED <<claudeMessages, system, openaiResp, claudeResp>>
    /\ UNCHANGED <<streamVars, cacheVars, sanitizeVars, requestVars, processorVars>>

NextConvert == CallConvertMessages \/ CallInjectInstruction

(***************************************************************************)
(* ConvertResponse, converter.go 412-544                                   *)
(***************************************************************************)
\* one reasoning_details entry
ReasoningDetail(type, text, summary) == [type |-> type, text |-> text, summary |-> summary]

\* converter.go 72-93
ExtractReasoningText(detail) ==
    CASE detail.type = "reasoning.text" -> detail.text
      [] detail.type = "reasoning.summary" -> detail.summary
      [] OTHER -> ""

\* a block of an array-valued message.content; text holds the "text" or
\* "thinking" string, input is an interface value
NativeBlock(type, id, name, input, text) ==
    [type |-> type, id |-> id, name |-> name, input |-> input, text |-> text]

\* models.ContentBlock of the Claude response
ContentBlockOut(type, text, thinking, id, name, input) ==
    [Type |-> type, Text |-> text, Thinking |-> thinking, ID |-> id, Name |-> name,
     Input |-> input]

\* choices[0] of the backend response; contentKind is "nil", "string" or "array",
\* finishReason "" stands for a nil pointer
OpenAIResponse(hasChoices, details, contentKind, contentStr, contentArr, toolCalls, finishReason, usage) ==
    [hasChoices |-> hasChoices, ReasoningDetails |-> details, contentKind |-> contentKind,
     contentStr |-> contentStr, contentArr |-> contentArr, ToolCalls |-> toolCalls,
     FinishReason |-> finishReason, Usage |-> usage]

\* converter.go 546-560
convertFinishReason(openaiReason) ==
    CASE openaiReason = "stop" -> "end_turn"
      [] openaiReason = "length" -> "max_tokens"
      [] openaiReason = "tool_calls" -> "tool_use"
      [] openaiReason = "content_filter" -> "end_turn"
      [] OTHER -> "end_turn"

\* thinking blocks of reasoning_details, converter.go 425-440
RECURSIVE ThinkingBlocksOf(_)
ThinkingBlocksOf(details) ==
    IF details = <<>> THEN <<>>
    ELSE LET t == ExtractReasoningText(Head(details))
         IN  (IF t # "" THEN <<ContentBlockOut("thinking", "", t, "", "", JNull)>> ELSE <<>>)
             \o ThinkingBlocksOf(Tail(details))

\* the id of a native tool_use block, generated when empty, converter.go 484-491
NativeBlockID(block, clock) == IF block.id = "" THEN NativeToolID(clock) ELSE block.id

\* the blocks of an array-valued message.content, converter.go 459-505
RECURSIVE NativeBlocksOf(_, _, _, _, _)
NativeBlocksOf(blocks, i, now, tick, rev) ==
    IF i > Len(blocks) THEN <<>>
    ELSE LET b == blocks[i]
             out == CASE b.type = "thinking" ->
                            <<ContentBlockOut("thinking", "", b.text, "", "", JNull)>>
                      [] b.type = "text" ->
                            <<ContentBlockOut("text", b.text, "", "", "", JNull)>>
                      [] b.type = "tool_use" ->
                            <<ContentBlockOut("tool_use", "", "",
                                  NativeBlockID(b, now + tick * i), b.name,
                                  sanitizeToolInputFromInterface(b.name, b.input, rev))>>
                      [] OTHER -> <<>>
         IN  out \o NativeBlocksOf(blocks, i + 1, now, tick, rev)

\* processedToolIDs after the content array, converter.go 445, 493-494
NativeIDsOf(blocks, now, tick) ==
    { NativeBlockID(blocks[i], now + tick * i) :
        i \in {j \in 1..Len(blocks) : blocks[j].type = "tool_use"} }

\* a conversion that emits every tool_calls entry
SeenInContentNever(processed, id) == FALSE

\* processedToolIDs[toolCall.ID], converter.go 512-514
SeenInContent(processed, id) == id \in processed

\* tool_use blocks of message.tool_calls, converter.go 508-520
RECURSIVE ToolUseBlocksOf(_, _, _)
ToolUseBlocksOf(toolCalls, processed, rev) ==
    IF toolCalls = <<>> THEN <<>>
    ELSE LET tc == Head(toolCalls)
         IN  (IF SeenInContent(processed, tc.ID) THEN <<>>
              ELSE <<ContentBlockOut("tool_use", "", "", tc.ID, tc.Name,
                                     sanitizeToolInput(tc.Name, tc.Arguments, rev))>>)
             \o ToolUseBlocksOf(Tail(toolCalls), processed, rev)

\* the response ConvertResponse returns; ok is FALSE for the error return
ClaudeResponse(ok, content, stopReason, usage) ==
    [ok |-> ok, Content |-> content, StopReason |-> stopReason, Usage |-> usage]

NoResponse == ClaudeResponse(FALSE, <<>>, "", ZeroUsage)

\* converter.go 412-544
ConvertResponse(resp, now, tick, rev) ==
    IF ~resp.hasChoices THEN NoResponse
    ELSE LET thinking == ThinkingBlocksOf(resp.ReasoningDetails)
             text == IF resp.contentKind = "string" /\ resp.contentStr # ""
                     THEN <<ContentBlockOut("text", resp.contentStr, "", "", "", JNull)>>
                     ELSE <<>>
             arr == IF resp.contentKind = "array" THEN resp.contentArr ELSE <<>>
             native == NativeBlocksOf(arr, 1, now, tick, rev)
             tools == ToolUseBlocksOf(resp.ToolCalls, NativeIDsOf(arr, now, tick), rev)
         IN  ClaudeResponse(TRUE, thinking \o text \o native \o tools,
                            IF resp.FinishReason = "" THEN ""
                            ELSE convertFinishReason(resp.FinishReason),
                            resp.Usage)

\* the backend responses of the model
DetailLists ==
    { <<>>, <<ReasoningDetail("reasoning.text", "think", "")>>,
      <<ReasoningDetail("reasoning.encrypted", "", "")>>,
      <<ReasoningDetail("reasoning.summary", "", "sum"),
        ReasoningDetail("reasoning.text", "think", "")>> }

NativeBlocks ==
    { NativeBlock("thinking", "", "", JNull, "think"),
      NativeBlock("text", "", "", JNull, "hi"),
      NativeBlock("image", "", "", JNull, "") }
    \cup { NativeBlock("tool_use", id, "Bash", JObject("query" :> JString("ls")), "") :
             id \in {"", "tA"} }

NativeBlockLists ==
    {<<>>} \cup {<<b>> : b \in NativeBlocks} \cup {<<a, b>> : a, b \in NativeBlocks}

ResponseToolCalls ==
    { OpenAIToolCall(id, "Bash", "{\"query\":\"ls\"}") : id \in {"tA", "tB"} }

ToolCallLists ==
    {<<>>} \cup {<<c>> : c \in ResponseToolCalls}
    \cup {<<c, d>> : c, d \in ResponseToolCalls}

FinishReasons == {"", "stop", "tool_calls"}

OpenAIResponses ==
    { OpenAIResponse(FALSE, <<>>, "nil", "", <<>>, <<>>, "", ZeroUsage) }
    \cup { OpenAIResponse(TRUE, d, "nil", "", <<>>, tcs, fr, <<5, 2>>) :
             d \in DetailLists, tcs \in ToolCallLists, fr \in FinishReasons }
    \cup { OpenAIResponse(TRUE, d, "string", str, <<>>, tcs, fr, <<5, 2>>) :
             d \in DetailLists, str \in {"", "hi"}, tcs \in ToolCallLists,
             fr \in FinishReasons }
    \cup { OpenAIResponse(TRUE, d, "array", "", arr, tcs, fr, <<5, 2>>) :
             d \in DetailLists, arr \in NativeBlockLists, tcs \in ToolCallLists,
             fr \in FinishReasons }

ResponseInit ==
    /\ openaiResp \in OpenAIResponses
    /\ claudeResp = NoResponse
    /\ converted = {}

\* handleMessages converts the backend response, handlers.go:188
CallConvertResponse ==
    /\ "ConvertResponse" \notin converted
    /\ \E now \in {1}, tick \in {0, 1}, rev \in BOOLEAN :
          claudeResp' = ConvertResponse(openaiResp, now, tick, rev)
    /\ converted' = converted \cup {"ConvertResponse"}
    /\ UNCHANGED <<claudeMessages, system, openaiMessages, openaiResp>>
    /\ UNCHANGED <<streamVars, cacheVars, sanitizeVars, requestVars, processorVars>>

NextResponse == CallConvertResponse

(***************************************************************************)
(* ConvertRequest: model routing and provider fields, converter.go 96-211  *)
(***************************************************************************)
DefaultOpusModel == "google/gemini-3-pro-preview"

DefaultSonnetModel == "google/gemini-3-flash-preview"

DefaultHaikuModel == "google/gemini-2.5-pro"

\* requested model names, with the tier words that strings.Contains finds in
\* their lowercase form
TierWords ==
    ( "claude-3-5-haiku-20241022" :> {"haiku"} ) @@
    ( "claude-sonnet-4" :> {"sonnet"} ) @@
    ( "claude-opus-4" :> {"opus"} ) @@
    ( "Claude-HAIKU" :> {"haiku"} ) @@
    ( "opus-or-haiku" :> {"opus", "haiku"} ) @@
    ( "sonnet-opus" :> {"sonnet", "opus"} ) @@
    ( "gpt-4o" :> {} ) @@
    ( "" :> {} )

ModelNames == DOMAIN TierWords

\* a routing that tries the tiers in the order opus, sonnet, haiku
mapModelOpusFirst(claudeModel, c) ==
    LET found == TierWords[claudeModel]
    IN  CASE "opus" \in found ->
                IF c.OpusModel # "" THEN c.OpusModel ELSE DefaultOpusModel
          [] "sonnet" \in found ->
                IF c.SonnetModel # "" THEN c.SonnetModel ELSE DefaultSonnetModel
          [] "haiku" \in found ->
                IF c.HaikuModel # "" THEN c.HaikuModel ELSE DefaultHaikuModel
          [] OTHER -> claudeModel

\* converter.go 182-211
mapModel(claudeModel, c) ==
    LET found == TierWords[claudeModel]
    IN  IF "haiku" \in found
        THEN IF c.HaikuModel # "" THEN c.HaikuModel ELSE DefaultHaikuModel
        ELSE IF "sonnet" \in found
        THEN IF c.SonnetModel # "" THEN c.SonnetModel ELSE DefaultSonnetModel
        ELSE IF "opus" \in found
        THEN IF c.OpusModel # "" THEN c.OpusModel ELSE DefaultOpusModel
        ELSE claudeModel

\* base URLs, with the host words that strings.Contains finds in their
\* lowercase form
HostWords ==
    ( "https://openrouter.ai/api/v1" :> {"openrouter.ai"} ) @@
    ( "https://api.openai.com/v1" :> {"api.openai.com"} ) @@
    ( "https://API.OpenAI.com/v1" :> {"api.openai.com"} ) @@
    ( "http://localhost:11434/v1" :> {"localhost"} ) @@
    ( "http://127.0.0.1:11434/v1" :> {"127.0.0.1"} ) @@
    ( "http://localhost:8080/openrouter.ai/v1" :> {"localhost", "openrouter.ai"} ) @@
    ( "https://a.example/v1" :> {} )

ProviderOpenRouter == "openrouter"

ProviderOpenAI == "openai"

ProviderOllama == "ollama"

ProviderUnknown == "unknown"

\* config.go 165-178
DetectProvider(baseURL) ==
    LET found == HostWords[baseURL]
    IN  IF "openrouter.ai" \in found THEN ProviderOpenRouter
        ELSE IF "api.openai.com" \in found THEN ProviderOpenAI
        ELSE IF "localhost" \in found \/ "127.0.0.1" \in found THEN ProviderOllama
        ELSE ProviderUnknown

\* the provider fields of models.OpenAIRequest; a map is the set of its keys
\* that are true, a nil map is {}, an unset string or interface is ""
ProviderFields(streamOptions, usage, reasoning, reasoningEffort, toolChoice) ==
    [StreamOptions |-> streamOptions, Usage |-> usage, Reasoning |-> reasoning,
     ReasoningEffort |-> reasoningEffort, ToolChoice |-> toolChoice]

NoProviderFields == ProviderFields({}, {}, {}, "", "")

\* the switch on the provider, converter.go 118-148
FieldsOfProvider(provider, hasTools) ==
    CASE provider = ProviderOpenRouter ->
            ProviderFields({"include_usage"}, {"include"}, {"enabled"}, "", "")
      [] provider = ProviderOpenAI ->
            ProviderFields({"include_usage"}, {}, {}, "medium", "")
      [] provider = ProviderOllama ->
            ProviderFields({}, {}, {}, "", IF hasTools THEN "required" ELSE "")
      [] OTHER -> NoProviderFields

\* an augmentation that does not look at the stream flag
AugmentRequestAlways(stream, baseURL, hasTools) ==
    FieldsOfProvider(DetectProvider(baseURL), hasTools)

\* converter.go 115-149; stream is "nil", "false" or "true" for the *bool
AugmentRequest(stream, baseURL, hasTools) ==
    IF stream = "true"
    THEN FieldsOfProvider(DetectProvider(baseURL), hasTools)
    ELSE NoProviderFields

NoRequest == [called |-> FALSE]

\* converter.go 96-176: the routed model, the stream flag, the provider fields
\* and the token limit of the outbound request
ConvertRequestOf(r, c, cache) ==
    LET openaiModel == mapModel(r.Model, c)
        limits == ConvertRequest(cache, c.OpenAIBaseURL, openaiModel, r.MaxTokens)
        fields == AugmentRequest(r.Stream, c.OpenAIBaseURL, r.hasTools)
    IN  [called |-> TRUE, Model |-> openaiModel, Stream |-> r.Stream,
         MaxTokens |-> limits.MaxTokens,
         MaxCompletionTokens |-> limits.MaxCompletionTokens,
         StreamOptions |-> fields.StreamOptions, Usage |-> fields.Usage,
         Reasoning |-> fields.Reasoning, ReasoningEffort |-> fields.ReasoningEffort,
         ToolChoice |-> fields.ToolChoice, hasTools |-> r.hasTools]

ClaudeRequests ==
    [Model : ModelNames, Stream : {"nil", "false", "true"}, hasTools : BOOLEAN,
     MaxTokens : ClaudeMaxTokens]

Configs ==
    [OpenAIBaseURL : DOMAIN HostWords, HaikuModel : {"", "my-haiku"},
     SonnetModel : {"", "my-sonnet"}, OpusModel : {"", "my-opus"}]

RequestInit ==
    /\ claudeRequest \in ClaudeRequests
    /\ config \in Configs
    /\ openaiRequest = NoRequest

\* ConvertRequest is not involved
RequestIdle ==
    /\ claudeRequest = [Model |-> "", Stream |-> "nil", hasTools |-> FALSE, MaxTokens |-> 0]
    /\ config = [OpenAIBaseURL |-> "https://a.example/v1", HaikuModel |-> "",
                 SonnetModel |-> "", OpusModel |-> ""]
    /\ openaiRequest = NoRequest

\* handleMessages converts the request, handlers.go:68
CallConvertRequest ==
    /\ openaiRequest = NoRequest
    /\ openaiRequest' = ConvertRequestOf(claudeRequest, config, modelCapabilityCache)
    /\ UNCHANGED <<claudeRequest, config>>
    /\ UNCHANGED <<streamVars, cacheVars, sanitizeVars, convertVars, processorVars>>

NextRequest == CallConvertRequest

Init == StreamInit /\ CacheInit /\ SanitizeIdle /\ ConvertIdle /\ RequestIdle

InitRequest == StreamInit /\ CacheIdle /\ SanitizeIdle /\ ConvertIdle /\ RequestInit

SpecRequest == InitRequest /\ [][NextRequest]_vars

InitStream == StreamInit /\ CacheIdle /\ SanitizeIdle /\ ConvertIdle /\ RequestIdle

InitSanitize == StreamInit /\ CacheIdle /\ SanitizeInit /\ ConvertIdle /\ RequestIdle

InitConvert ==
    /\ StreamInit /\ CacheIdle /\ SanitizeIdle /\ ConvertInit /\ RequestIdle
    /\ openaiResp = OpenAIResponse(FALSE, <<>>, "nil", "", <<>>, <<>>, "", ZeroUsage)
    /\ claudeResp = NoResponse

InitResponse ==
    /\ StreamInit /\ CacheIdle /\ SanitizeIdle /\ ResponseInit /\ RequestIdle
    /\ claudeMessages = <<>> /\ system = "" /\ openaiMessages = <<>>

SpecResponse == InitResponse /\ [][NextResponse]_vars

SpecConvert == InitConvert /\ [][NextConvert]_vars

SpecSanitize == InitSanitize /\ [][NextSanitize]_vars

SpecProcessor == InitStream /\ [][NextProcessor]_vars

SpecStream == InitStream /\ [][NextStream]_vars

\* the translator goroutine keeps running while it has a step to take
SpecStreamFair == InitStream /\ [][NextStream]_vars /\ WF_vars(NextStream)

SpecCache == Init /\ [][NextCache]_vars

(***************************************************************************)
(* Properties of the emitted event sequence                                *)
(***************************************************************************)
\* events written by the translator itself, as opposed to forwarded chunks
IsBlockStart(e) == e.type = "content_block_start" /\ ~e.fwd

IsBlockStop(e) == e.type = "content_block_stop" /\ ~e.fwd

IsBlockDelta(e) == e.type = "content_block_delta" /\ ~e.fwd

IsToolUseStart(e) == IsBlockStart(e) /\ e.btype = "tool_use"

Positions == 1..Len(events)

CountType(type) == Cardinality({i \in Positions : events[i].type = type})

\* C1: once the stream is finalized, every content_block_start the translator
\* wrote has exactly one content_block_stop with the same index, and that stop
\* lies between the start and message_delta.
C1_EveryStartHasOneStop ==
    pc = "done" =>
        \A i \in Positions : IsBlockStart(events[i]) =>
            /\ Cardinality({j \in Positions : /\ IsBlockStop(events[j])
                                              /\ events[j].index = events[i].index}) = 1
            /\ \E j, d \in Positions :
                  /\ i < j /\ j < d
                  /\ IsBlockStop(events[j]) /\ events[j].index = events[i].index
                  /\ events[d].type = "message_delta"

\* C2: a finalized stream is message_start, ping, content-block events,
\* message_delta, message_stop: message_start and message_stop occur once,
\* message_start is first and nothing follows message_stop.
C2_StreamShape ==
    pc = "done" =>
        /\ Len(events) >= 4
        /\ events[1].type = "message_start"
        /\ events[2].type = "ping"
        /\ CountType("message_start") = 1
        /\ CountType("message_stop") = 1
        /\ events[Len(events)].type = "message_stop"
        /\ events[Len(events) - 1].type = "message_delta"
        /\ \A i \in 3..(Len(events) - 2) :
              events[i].type \in {"content_block_start", "content_block_delta",
                                  "content_block_stop"}

\* the indices of the content_block_start events, in emission order
StartIndices ==
    LET starts == SelectSeq(events, IsBlockStart)
    IN  [k \in 1..Len(starts) |-> starts[k].index]

\* C3: the indices of the content_block_start events are 0, 1, ..., N-1 in
\* emission order: none skipped, none used twice.
C3_IndicesContiguous ==
    \A k \in 1..Len(StartIndices) : StartIndices[k] = k - 1

OpenBefore(index, i) ==
    /\ \E j \in 1..(i - 1) : IsBlockStart(events[j]) /\ events[j].index = index
    /\ \A j \in 1..(i - 1) : ~(IsBlockStop(events[j]) /\ events[j].index = index)

C6_AtMostOneTokenLimit ==
    \A h \in Handlers : \A i \in 1..Len(req[h].sent) :
        ~(req[h].sent[i].MaxTokens > 0 /\ req[h].sent[i].MaxCompletionTokens > 0)

\* a retry is in flight whose first attempt carried max_completion_tokens,
\* while another request carries max_tokens
C6_Witness ==
    \E h1, h2 \in Handlers :
        /\ Len(req[h1].sent) = 2
        /\ req[h1].sent[1].MaxCompletionTokens > 0
        /\ Len(req[h2].sent) >= 1
        /\ req[h2].sent[1].MaxTokens > 0

\* C7: a request received after the retry path has run for its key does not
\* itself perform a retry.
C7_NoRetryAfterRetry ==
    \A h \in Handlers : req[h].pc = "retry" => ~req[h].afterRetry

\* C8: a request makes at most two backend calls, and the second one is the
\* retry, after which the request only ends.
C8_AtMostTwoCalls ==
    \A h \in Handlers :
        /\ Len(req[h].sent) <= 2
        /\ Len(req[h].sent) = 2 => req[h].pc \in {"retry", "done"}

\* a request whose retry failed and whose error was surfaced
C8_Witness ==
    \E h \in Handlers :
        /\ req[h].pc = "done"
        /\ req[h].result = "error"
        /\ Len(req[h].sent) = 2

\* the step in which handler h takes the retry path
RetryStep(h) == req[h].pc = "first" /\ req'[h].pc = "retry"

\* the step in which handler h receives and converts a request
ReceiveStep(h) == req[h].pc \in {"idle", "done"} /\ req'[h].pc = "first"

\* the step in which the first attempt of handler h succeeds
FirstSuccessStep(h) ==
    req[h].pc = "first" /\ req'[h].pc = "done" /\ req'[h].result = "ok"

\* C9: the retry is sent with both token limits cleared and records
\* uses_max_completion_tokens=false for the key; a request converted while
\* the entry is false sets max_tokens and no max_completion_tokens.
C9_RetryClearsAndCachesFalse ==
    [][\A h \in Handlers :
          /\ RetryStep(h) =>
                /\ Len(req'[h].sent) = 2
                /\ req'[h].sent[2].MaxTokens = 0
                /\ req'[h].sent[2].MaxCompletionTokens = 0
                /\ HasCapabilities(modelCapabilityCache', KeyOf(req[h]))
                /\ ~modelCapabilityCache'[KeyOf(req[h])].UsesMaxCompletionTokens
          /\ (/\ ReceiveStep(h)
              /\ req'[h].maxTokens > 0
              /\ HasCapabilities(modelCapabilityCache, KeyOf(req'[h]))
              /\ ~modelCapabilityCache[KeyOf(req'[h])].UsesMaxCompletionTokens) =>
                /\ req'[h].sent[1].MaxTokens = req'[h].maxTokens
                /\ req'[h].sent[1].MaxCompletionTokens = 0]_vars

\* a request received right after a retry for its key: the entry is false and
\* the request was sent with max_tokens
C9_Witness ==
    \E h \in Handlers :
        /\ req[h].pc = "first"
        /\ req[h].afterRetry
        /\ HasCapabilities(modelCapabilityCache, KeyOf(req[h]))
        /\ ~modelCapabilityCache[KeyOf(req[h])].UsesMaxCompletionTokens
        /\ req[h].sent[1].MaxTokens = 128
        /\ req[h].sent[1].MaxCompletionTokens = 0

\* C10: a converted request carries max_completion_tokens exactly when the
\* key has no entry or its entry holds true; a successful first attempt
\* records true when it carried max_completion_tokens and otherwise leaves
\* the cache as it is.
C10_CacheAnswerAndSuccess ==
    [][\A h \in Handlers :
          /\ (ReceiveStep(h) /\ req'[h].maxTokens > 0) =>
                (req'[h].sent[1].MaxCompletionTokens > 0
                    <=> (\/ ~HasCapabilities(modelCapabilityCache, KeyOf(req'[h]))
                         \/ modelCapabilityCache[KeyOf(req'[h])].UsesMaxCompletionTokens))
          /\ FirstSuccessStep(h) =>
                IF req[h].openaiReq.MaxCompletionTokens > 0
                THEN /\ HasCapabilities(modelCapabilityCache', KeyOf(req[h]))
                     /\ modelCapabilityCache'[KeyOf(req[h])].UsesMaxCompletionTokens
                     /\ \A k \in CacheKeys \ {KeyOf(req[h])} :
                           /\ HasCapabilities(modelCapabilityCache', k)
                                 <=> HasCapabilities(modelCapabilityCache, k)
                           /\ HasCapabilities(modelCapabilityCache, k) =>
                                 modelCapabilityCache'[k] = modelCapabilityCache[k]
                ELSE modelCapabilityCache' = modelCapabilityCache]_vars

\* one first attempt with max_completion_tokens succeeded and recorded true;
\* another, sent with max_tokens under an entry false, succeeded and left it
C10_Witness ==
    \E h1, h2 \in Handlers :
        /\ req[h1].pc = "done" /\ req[h1].result = "ok" /\ Len(req[h1].sent) = 1
        /\ req[h1].openaiReq.MaxCompletionTokens > 0
        /\ HasCapabilities(modelCapabilityCache, KeyOf(req[h1]))
        /\ modelCapabilityCache[KeyOf(req[h1])].UsesMaxCompletionTokens
        /\ req[h2].pc = "done" /\ req[h2].result = "ok" /\ Len(req[h2].sent) = 1
        /\ req[h2].openaiReq.MaxTokens > 0
        /\ HasCapabilities(modelCapabilityCache, KeyOf(req[h2]))
        /\ ~modelCapabilityCache[KeyOf(req[h2])].UsesMaxCompletionTokens

(***************************************************************************)
(* Properties of the translator, continued                                 *)
(***************************************************************************)
\* the message_delta events written by the finalization
FinalMessageDeltas == {i \in DOMAIN events : events[i].type = "message_delta" /\ ~events[i].fwd}

\* C11 as stated: the usage of the final message_delta is the usage of the last
\* chunk that carried a usage object, and <<0, 0>> when there was none.
C11_FinalUsageIsLastUsage ==
    pc = "done" => \A i \in FinalMessageDeltas : events[i].usage = observed.anyUsage

\* C11: the usage of the final message_delta is the usage of the last chunk
\* without a top-level "type" that carried a usage object, also when that chunk
\* came after the chunk with finish_reason, and <<0, 0>> when there was none.
C11_FinalUsageIsLastUntypedUsage ==
    pc = "done" =>
        /\ Cardinality(FinalMessageDeltas) = 1
        /\ \A i \in FinalMessageDeltas : events[i].usage = observed.untypedUsage

\* a finished stream whose usage chunk came after the finish_reason chunk
C11_Witness ==
    /\ pc = "done"
    /\ observed.usageAfterFinish
    /\ \E i \in FinalMessageDeltas : events[i].usage = <<7, 3>>

(***************************************************************************)
(* Properties of the sanitizers                                            *)
(***************************************************************************)
\* the tool name belongs to the WebSearch family
IsWebSearchFamily(name) ==
    Contains(ToLower(name), "websearch") \/ Contains(ToLower(name), "search")

\* C12: for a tool outside the WebSearch family the map SanitizeToolArgs
\* returns has no key named query.
C12_NoQueryKey ==
    (sanitized["SanitizeToolArgs"] # NotCalled /\ ~IsWebSearchFamily(toolName))
        => ~HasKey(sanitized["SanitizeToolArgs"].obj, "query")

\* the family substrings of the claim and the parameters each family requires
ListedFamilies ==
    {"edit", "grep", "bash", "read", "write", "glob", "lsp", "task", "fetch", "skill"}

FamilyParams(family) ==
    CASE family = "bash" -> {"command"}
      [] family = "read" -> {"file_path"}
      [] family = "glob" -> {"pattern"}
      [] family = "grep" -> {"pattern", "path"}
      [] family = "write" -> {"file_path", "content"}
      [] family = "edit" -> {"file_path", "old_string", "new_string"}
      [] family = "lsp" -> {"filePath"}
      [] family = "task" -> {"prompt"}
      [] family = "fetch" -> {"url"}
      [] family = "skill" -> {"skill"}
      [] OTHER -> {}

\* the value a required parameter gets from the query string
SpreadValue(family, param, queryString) ==
    IF family = "grep" /\ param = "path" THEN JString(".") ELSE JString(queryString)

\* the listed families whose substring occurs in the lowercased tool name
FamiliesOf(name) == FamilyWords(ToLower(name)) \cap ListedFamilies

\* the arguments hold a query key with a non-empty string that does not
\* start with "{"
HasPlainQuery(m) ==
    /\ HasKey(m, "query")
    /\ m["query"].kind = "string"
    /\ m["query"].str # ""
    /\ FirstChar(m["query"].str) # "{"

\* the result has no query key, every required parameter that was absent holds
\* the query string, and every other key of the arguments kept its value
SpreadsQuery(family, input, output) ==
    /\ ~HasKey(output, "query")
    /\ \A k \in FamilyParams(family) :
          /\ HasKey(output, k)
          /\ ~HasKey(input, k) => output[k] = SpreadValue(family, k, input["query"].str)
    /\ \A k \in DOMAIN input \ {"query"} : HasKey(output, k) /\ output[k] = input[k]

IsEmptyArgs(v) ==
    \/ v.kind = "null"
    \/ v.kind = "string" /\ v.str \in {"", " ", "{}", "null"}

\* C14: for null, the empty string, a blank string or "{}" both
\* sanitizeToolInput and sanitizeToolInputFromInterface return the empty
\* object, never a string.
C14_EmptyArgsGiveEmptyObject ==
    IsEmptyArgs(toolArgs) =>
        \A f \in {"sanitizeToolInput", "sanitizeToolInputFromInterface"} :
            sanitized[f] # NotCalled => sanitized[f] = JObject(EmptyMap)

\* both sanitizers were called on a blank string and returned the empty object
C14_Witness ==
    /\ toolArgs = JString(" ")
    /\ sanitized["sanitizeToolInput"] = JObject(EmptyMap)
    /\ sanitized["sanitizeToolInputFromInterface"] = JObject(EmptyMap)

(***************************************************************************)
(* Properties of the converter functions                                   *)
(***************************************************************************)
\* the tool_use_id of every tool_result block of the request, in input order
RECURSIVE InputToolResultIDs(_)
InputToolResultIDs(msgs) ==
    IF msgs = <<>> THEN <<>>
    ELSE LET bs == Head(msgs).blocks
             rs == SelectSeq(bs, LAMBDA b : b.type = "tool_result")
         IN  [i \in 1..Len(rs) |-> rs[i].tool_use_id] \o InputToolResultIDs(Tail(msgs))

\* the id of every tool_use block in a message without tool_result blocks
RECURSIVE InputToolUseIDs(_)
InputToolUseIDs(msgs) ==
    IF msgs = <<>> THEN <<>>
    ELSE LET bs == Head(msgs).blocks
             us == SelectSeq(bs, LAMBDA b : b.type = "tool_use")
         IN  (IF \E i \in 1..Len(bs) : bs[i].type = "tool_result" THEN <<>>
              ELSE [i \in 1..Len(us) |-> us[i].id])
             \o InputToolUseIDs(Tail(msgs))

\* the tool_call_id of the role=tool messages of the output, in order
OutputToolMessageIDs(out) ==
    LET ts == SelectSeq(out, LAMBDA m : m.Role = "tool")
    IN  [i \in 1..Len(ts) |-> ts[i].ToolCallID]

\* the id of every tool_calls entry of the output, in order
RECURSIVE OutputToolCallIDs(_)
OutputToolCallIDs(out) ==
    IF out = <<>> THEN <<>>
    ELSE [i \in 1..Len(Head(out).ToolCalls) |-> Head(out).ToolCalls[i].ID]
         \o OutputToolCallIDs(Tail(out))

\* C15 as stated: one tool message per tool_result block with its
\* tool_use_id, and one tool_calls entry per tool_use block with the id of the
\* block, verbatim.
C15_ToolIDsVerbatim ==
    "convertMessages" \in converted =>
        /\ OutputToolMessageIDs(openaiMessages) = InputToolResultIDs(claudeMessages)
        /\ OutputToolCallIDs(openaiMessages) = InputToolUseIDs(claudeMessages)

\* C15: one tool message per tool_result block, in input order, with its
\* tool_use_id; one tool_calls entry per tool_use block of a message without
\* tool_result blocks, with the id of the block when that id is not empty and
\* a generated id otherwise.
C15_ToolIDsPreservedWhenPresent ==
    "convertMessages" \in converted =>
        LET ins == InputToolUseIDs(claudeMessages)
            outs == OutputToolCallIDs(openaiMessages)
        IN  /\ OutputToolMessageIDs(openaiMessages) = InputToolResultIDs(claudeMessages)
            /\ Len(outs) = Len(ins)
            /\ \A i \in 1..Len(ins) :
                  IF ins[i] # "" THEN outs[i] = ins[i]
                  ELSE outs[i] # "" /\ outs[i] \notin {"tA", "tB"}

\* an assistant tool call tA followed by its tool_result: the output pairs
\* them under the same id
C15_Witness ==
    /\ "convertMessages" \in converted
    /\ Len(claudeMessages) = 2
    /\ InputToolUseIDs(claudeMessages) = <<"tA">>
    /\ InputToolResultIDs(claudeMessages) = <<"tA">>
    /\ Len(openaiMessages) = 2
    /\ openaiMessages[1].Role = "assistant"
    /\ openaiMessages[1].ToolCalls[1].ID = "tA"
    /\ openaiMessages[2].Role = "tool"
    /\ openaiMessages[2].ToolCallID = "tA"

\* the reasoning_details entries that become thinking blocks
ThinkingDetails(resp) ==
    SelectSeq(resp.ReasoningDetails,
              LAMBDA d : d.type \in {"reasoning.text", "reasoning.summary"})

\* the types of the blocks message.content contributes, in order
ContentTypes(resp) ==
    CASE resp.contentKind = "string" -> IF resp.contentStr # "" THEN <<"text">> ELSE <<>>
      [] resp.contentKind = "array" ->
            LET bs == SelectSeq(resp.contentArr,
                                LAMBDA b : b.type \in {"thinking", "text", "tool_use"})
            IN  [i \in 1..Len(bs) |-> bs[i].type]
      [] OTHER -> <<>>

\* the ids given by native tool_use blocks of message.content
NativeIDs(resp) ==
    IF resp.contentKind # "array" THEN {}
    ELSE { resp.contentArr[i].id :
             i \in {j \in 1..Len(resp.contentArr) : resp.contentArr[j].type = "tool_use"} }

\* the tool_calls entries whose id is not the id of a native tool_use block
FreshToolCalls(resp) == SelectSeq(resp.ToolCalls, LAMBDA c : c.ID \notin NativeIDs(resp))

\* C16: the content of the response is the thinking blocks of
\* reasoning_details, then the blocks of message.content, then one tool_use
\* block per tool_calls entry whose id was not seen in message.content.
C16_ContentBlockOrder ==
    ("ConvertResponse" \in converted /\ claudeResp.ok) =>
        LET out == claudeResp.Content
            th == ThinkingDetails(openaiResp)
            ct == ContentTypes(openaiResp)
            tc == FreshToolCalls(openaiResp)
            nT == Len(th)
            nC == Len(ct)
        IN  /\ Len(out) = nT + nC + Len(tc)
            /\ \A i \in 1..nT :
                  out[i].Type = "thinking" /\ out[i].Thinking = ExtractReasoningText(th[i])
            /\ \A i \in 1..nC : out[nT + i].Type = ct[i]
            /\ \A i \in 1..Len(tc) :
                  out[nT + nC + i].Type = "tool_use" /\ out[nT + nC + i].ID = tc[i].ID
            /\ \A id \in NativeIDs(openaiResp) \ {""} :
                  Cardinality({i \in 1..Len(out) : out[i].ID = id})
                      = Cardinality({j \in 1..Len(openaiResp.contentArr) :
                                        /\ openaiResp.contentArr[j].type = "tool_use"
                                        /\ openaiResp.contentArr[j].id = id})

\* reasoning text, a native tool_use block tA and the tool_calls tA, tB give
\* thinking, tool_use tA, tool_use tB
C16_Witness ==
    /\ "ConvertResponse" \in converted
    /\ Len(openaiResp.ReasoningDetails) = 1
    /\ NativeIDs(openaiResp) = {"tA"}
    /\ Len(openaiResp.ToolCalls) = 2
    /\ openaiResp.ToolCalls[1].ID = "tA"
    /\ Len(claudeResp.Content) = 3
    /\ claudeResp.Content[1].Type = "thinking"
    /\ claudeResp.Content[2].ID = "tA"
    /\ claudeResp.Content[3].ID = "tB"

(***************************************************************************)
(* Termination of the translator                                           *)
(***************************************************************************)
\* the finalization has written message_delta followed by message_stop
FinalEventsWritten ==
    \E i \in 1..(Len(events) - 1) :
        /\ events[i].type = "message_delta" /\ ~events[i].fwd
        /\ events[i + 1].type = "message_stop" /\ ~events[i + 1].fwd

\* C17: for every finite backend stream, whatever its chunks contain, the
\* translator eventually runs finalization and writes message_delta followed
\* by message_stop.
C17_EventuallyFinalized == <>FinalEventsWritten

(***************************************************************************)
(* The placeholder text block                                              *)
(***************************************************************************)
\* events i-2 and i-1 open a text block and write the placeholder text into it
PlaceholderBefore(i) ==
    /\ i > 2
    /\ IsBlockStart(events[i - 2]) /\ events[i - 2].btype = "text"
    /\ IsBlockDelta(events[i - 1]) /\ events[i - 1].data = PlaceholderText
    /\ events[i - 1].index = events[i - 2].index

\* a text or thinking block was opened before position i
OpenedBefore(i) ==
    \E j \in 1..(i - 1) :
        IsBlockStart(events[j]) /\ events[j].btype \in {"text", "thinking"}

\* C18: the placeholder text block is opened immediately before the
\* content_block_start of a tool call if and only if no text block and no
\* thinking block was opened earlier; a stream whose first content is a tool
\* call then has the placeholder at index 0.
C18_PlaceholderIffNothingOpened ==
    \A i \in DOMAIN events :
        IsToolUseStart(events[i]) =>
            /\ PlaceholderBefore(i) <=>
                  ~OpenedBefore(IF PlaceholderBefore(i) THEN i - 2 ELSE i)
            /\ (PlaceholderBefore(i) /\ ~OpenedBefore(i - 2)) => events[i - 2].index = 0

(***************************************************************************)
(* Inbound authentication                                                  *)
(***************************************************************************)
\* a request served with a secret configured and another x-api-key header
HasWrongKey(r) ==
    r.pc # "idle" /\ anthropicAPIKey # "" /\ r.apiKey # anthropicAPIKey

\* C19: when a secret is configured and the x-api-key header of a request
\* differs from it, the answer is 401 with an Anthropic-shaped error body,
\* nothing is sent to the backend and the capability cache is left as it was,
\* whatever the request body is.
C19_WrongKeyGets401 ==
    [][\A h \in Handlers :
          (req'[h] # req[h] /\ HasWrongKey(req'[h])) =>
              /\ req'[h].response = ErrorResponse(401, "authentication_error")
              /\ req'[h].sent = <<>>
              /\ modelCapabilityCache' = modelCapabilityCache]_vars

(***************************************************************************)
(* Frame of the capability cache                                           *)
(***************************************************************************)
\* the entry of key k, or its absence, is the same before and after the step
SameEntry(k) ==
    /\ HasCapabilities(modelCapabilityCache', k) = HasCapabilities(modelCapabilityCache, k)
    /\ HasCapabilities(modelCapabilityCache, k) =>
           modelCapabilityCache'[k] = modelCapabilityCache[k]

\* the token-limit parameter sent to the backend of key k is the same before
\* and after the step
SameTokenLimit(k) ==
    \A maxTokens \in ClaudeMaxTokens :
        ConvertRequest(modelCapabilityCache', k[1], k[2], maxTokens)
            = ConvertRequest(modelCapabilityCache, k[1], k[2], maxTokens)

\* C20: a step that records a capability for the key (base_url A, model m) of
\* the request it serves leaves the entry of every other key as it was, the
\* key (base_url B, m) with the same model string included, and so leaves the
\* token-limit parameter sent to every other backend as it was.
C20_RecordingLeavesOtherKeys ==
    [][\A h \in Handlers :
          (req'[h] # req[h] /\ modelCapabilityCache' # modelCapabilityCache) =>
              \A k \in CacheKeys \ {KeyOf(req[h])} :
                  SameEntry(k) /\ SameTokenLimit(k)]_vars

\* both backends expose the same model string and the cache holds a different
\* capability for each of them
C20_Witness ==
    \E a, b \in BaseURLs, m \in BackendModels :
        /\ a # b
        /\ HasCapabilities(modelCapabilityCache, CacheKey(a, m))
        /\ HasCapabilities(modelCapabilityCache, CacheKey(b, m))
        /\ modelCapabilityCache[CacheKey(a, m)].UsesMaxCompletionTokens
        /\ ~modelCapabilityCache[CacheKey(b, m)].UsesMaxCompletionTokens
        /\ \E h \in Handlers :
              req[h].pc = "first" /\ req[h].baseURL = a
              /\ req[h].openaiReq.MaxCompletionTokens > 0

(***************************************************************************)
(* Provider fields and model routing of ConvertRequest                     *)
(***************************************************************************)
Provider == DetectProvider(config.OpenAIBaseURL)

Streams == claudeRequest.Stream = "true"

\* C21: ConvertRequest adds provider fields only to a streaming request and
\* never mixes the dialects: OpenRouter gets reasoning.enabled, usage.include
\* and stream_options.include_usage and no reasoning_effort; OpenAI gets
\* reasoning_effort "medium" and stream_options.include_usage and no
\* reasoning object; Ollama gets tool_choice "required" only, and only with
\* tools; an unknown provider gets none of the fields.
C21_ProviderFieldsIsolated ==
    openaiRequest.called =>
        LET o == openaiRequest
            fields == ProviderFields(o.StreamOptions, o.Usage, o.Reasoning,
                                     o.ReasoningEffort, o.ToolChoice)
        IN  /\ ~Streams => fields = NoProviderFields
            /\ (Streams /\ Provider = ProviderOpenRouter) =>
                   /\ o.Reasoning = {"enabled"} /\ o.Usage = {"include"}
                   /\ o.StreamOptions = {"include_usage"}
                   /\ o.ReasoningEffort = "" /\ o.ToolChoice = ""
            /\ (Streams /\ Provider = ProviderOpenAI) =>
                   /\ o.ReasoningEffort = "medium"
                   /\ o.StreamOptions = {"include_usage"}
                   /\ o.Reasoning = {} /\ o.Usage = {} /\ o.ToolChoice = ""
            /\ (Streams /\ Provider = ProviderOllama) =>
                   /\ o.ToolChoice = (IF o.hasTools THEN "required" ELSE "")
                   /\ o.StreamOptions = {} /\ o.Usage = {} /\ o.Reasoning = {}
                   /\ o.ReasoningEffort = ""
            /\ (Streams /\ Provider = ProviderUnknown) => fields = NoProviderFields

\* a streaming request with tools has been converted for Ollama
C21_Witness ==
    /\ openaiRequest.called /\ Streams /\ Provider = ProviderOllama
    /\ claudeRequest.hasTools /\ openaiRequest.ToolChoice = "required"

\* the tier the claim routes a model name to: the first of haiku, sonnet,
\* opus that occurs in the lowercased name, or "" when none does
TierOf(name) ==
    LET found == TierWords[name]
    IN  CASE "haiku" \in found -> "haiku"
          [] "sonnet" \in found -> "sonnet"
          [] "opus" \in found -> "opus"
          [] OTHER -> ""

OverrideOf(tier) ==
    CASE tier = "haiku" -> config.HaikuModel
      [] tier = "sonnet" -> config.SonnetModel
      [] tier = "opus" -> config.OpusModel

DefaultOf(tier) ==
    CASE tier = "haiku" -> DefaultHaikuModel
      [] tier = "sonnet" -> DefaultSonnetModel
      [] tier = "opus" -> DefaultOpusModel

\* C22: mapModel routes a name by the first tier word, in the order haiku,
\* sonnet, opus, that its lowercase form contains, to the override of that
\* tier or to the tier's default when no override is set, and returns a name
\* with none of the three words unchanged.
C22_MapModelPriority ==
    openaiRequest.called =>
        LET tier == TierOf(claudeRequest.Model)
        IN  IF tier = "" THEN openaiRequest.Model = claudeRequest.Model
            ELSE IF OverrideOf(tier) # "" THEN openaiRequest.Model = OverrideOf(tier)
            ELSE openaiRequest.Model = DefaultOf(tier)

\* a name with the words opus and haiku has been routed to the haiku override
\* while an opus override is set as well
C22_Witness ==
    /\ openaiRequest.called
    /\ TierWords[claudeRequest.Model] = {"opus", "haiku"}
    /\ config.HaikuModel # "" /\ config.OpusModel # ""
    /\ openaiRequest.Model = config.HaikuModel

(***************************************************************************)
(* Tool input at finalization                                              *)
(***************************************************************************)
\* positions of the input_json_delta events written for block index idx
InputDeltas(idx) ==
    {i \in Positions : /\ IsBlockDelta(events[i])
                       /\ events[i].dtype = "input_json_delta"
                       /\ events[i].index = idx}

BlockStops(idx) == {i \in Positions : IsBlockStop(events[i]) /\ events[i].index = idx}

\* C23: once the stream is finalized, every started tool call has an
\* input_json_delta whose partial_json is the sanitized form of the
\* accumulated args_buffer ("{}" when the buffer is empty or does not parse),
\* written as the last delta of the block before its content_block_stop.
C23_FinalInputIsSanitized ==
    pc = "done" =>
        \A k \in DOMAIN currentToolCalls :
            LET td == currentToolCalls[k]
            IN  td.Started =>
                    \E i \in InputDeltas(td.ClaudeIndex) :
                        /\ \A j \in InputDeltas(td.ClaudeIndex) : j <= i
                        /\ \E rev \in BOOLEAN : events[i].data = FinalToolJSON(td, rev)
                        /\ \E j \in BlockStops(td.ClaudeIndex) : i < j

(***************************************************************************)
(* Accumulation of tool-call arguments                                     *)
(***************************************************************************)
\* C24: the args_buffer of every tool call index holds the string
\* function.arguments fragments of all delta.tool_calls entries of that
\* index, in arrival order, whether or not an entry carries an id or a name
\* and whether it arrives before or after the call has started; the order in
\* which id, name and arguments arrive therefore does not change the input.
C24_EveryFragmentAppended ==
    \A k \in DOMAIN observed.fragments :
        /\ k \in DOMAIN currentToolCalls
        /\ currentToolCalls[k].ArgsBuffer = observed.fragments[k]

(***************************************************************************)
(* One block and one state per tool call                                   *)
(***************************************************************************)
\* C25: every tool call that a chunk names with a non-empty name and an id
\* that no earlier chunk used, as a native tool_use block or as a
\* delta.tool_calls entry, has a tool_use content block of its own with that
\* id and name, and its state is kept: no other call is merged into it and
\* no other call replaces it.
C25_OneBlockPerToolCall ==
    \A p \in observed.named :
        /\ Cardinality({i \in Positions : IsToolUseStart(events[i])
                                             /\ events[i].id = p[1]}) = 1
        /\ \A i \in Positions :
              (IsToolUseStart(events[i]) /\ events[i].id = p[1]) => events[i].name = p[2]
        /\ \E k \in DOMAIN currentToolCalls :
              /\ currentToolCalls[k].ID = p[1]
              /\ currentToolCalls[k].Name = p[2]
              /\ currentToolCalls[k].Started

(***************************************************************************)
(* The stop reason of the stream                                           *)
(***************************************************************************)
\* the stop_reason the loop body assigns for a finish_reason
StreamStopReason(finishReason) ==
    HandleFinishReason([finalStopReason |-> "end_turn"], finishReason).finalStopReason

\* C26: the stop_reason of the final message_delta is the mapping of the last
\* non-empty finish_reason that a chunk carried in choices[0], whatever else
\* the chunk contains, and end_turn when no chunk carried one.
C26_StopReasonIsLastFinishReason ==
    pc = "done" =>
        \A i \in FinalMessageDeltas :
            events[i].data = StreamStopReason(observed.lastFinish)

\* C30: for every finish_reason the loop body reads, the stop_reason of the
\* streaming translator is the one convertFinishReason gives: stop, length,
\* tool_calls, content_filter map to end_turn, max_tokens, tool_use,
\* end_turn, and every other value maps to end_turn.
C30_StopReasonAsConvertFinishReason ==
    observed.lastFinishRead # "" =>
        finalStopReason = convertFinishReason(observed.lastFinishRead)

(***************************************************************************)
(* End of input processing                                                 *)
(***************************************************************************)
TextDeltas == {i \in Positions : IsBlockDelta(events[i]) /\ events[i].dtype = "text_delta"}

\* C27: only the terminator line ends input processing; a data line whose
\* JSON holds the characters [DONE] inside a string value is processed as a
\* chunk, so every delta.content string the backend sent has been written to
\* the client as a text_delta.
C27_EveryTextBeforeTerminatorEmitted ==
    \A t \in observed.texts : \E i \in TextDeltas : events[i].data = t

(***************************************************************************)
(* Flushing of the write side                                              *)
(***************************************************************************)
\* C28: whenever the translator is about to read the next backend line,
\* every event it has written has been flushed, whichever kind of delta the
\* lines before carried.
C28_FlushedBeforeNextRead ==
    pc = "reading" => flushed = Len(events)

(***************************************************************************)
(* Chunks with a top-level "type"                                          *)
(***************************************************************************)
\* the step reads a chunk with a top-level "type"
ReadsTypedChunk == observed'.typed # observed.typed

\* C29: a chunk with a top-level "type" is forwarded as one event and changes
\* nothing else: the next index, the text, thinking and tool-call state, the
\* processed tool ids, the usage totals and the final stop reason are the
\* same after the chunk as before it.
C29_TypedChunkOnlyForwarded ==
    [][ReadsTypedChunk =>
          /\ Len(events') = Len(events) + 1
          /\ SubSeq(events', 1, Len(events)) = events
          /\ events'[Len(events')].fwd
          /\ UNCHANGED <<nextIndex, textBlockIndex, thinkingBlockIndex,
                         currentToolCalls, processedToolIDs, finalStopReason,
                         usageData, thinkingBlockStarted, thinkingBlockHasContent,
                         textBlockStarted>>]_vars

\* a message_delta chunk with a usage object has been forwarded while a tool
\* call is open and other usage totals are held
C29_Witness ==
    /\ pc = "reading"
    /\ Len(events) > 0
    /\ events[Len(events)].fwd /\ events[Len(events)].type = "message_delta"
    /\ usageData \in UsageValues
    /\ DOMAIN currentToolCalls # {}

\* ---------------------------------------------------------------------------
\* SanitizeToolArgs: the Todo and Notebook families

\* the arguments hold a query key, and no other query-like key, whose string
\* begins with "[" and parses as a JSON array
HasArrayQuery(m) ==
    /\ QueryKeys(m) = {"query"}
    /\ m["query"].kind = "string"
    /\ FirstChar(m["query"].str) = "["
    /\ IsJSONArrayText(m["query"].str)

\* C31: for TodoWrite with a query string that begins with "[" and parses as a
\* JSON array the result holds todos set to the parsed array, and for
\* NotebookEdit with a plain query string the result holds notebook_path set to
\* that string (each where the arguments did not hold the parameter already).
C31_TodoAndNotebookQuery ==
    (sanitized["SanitizeToolArgs"] # NotCalled /\ toolArgs.kind = "object") =>
        LET input == toolArgs.obj
            output == sanitized["SanitizeToolArgs"].obj
        IN  /\ (toolName = "TodoWrite" /\ HasArrayQuery(input)
                                       /\ ~HasKey(input, "todos")) =>
                  /\ HasKey(output, "todos")
                  /\ output["todos"] = JArray(input["query"].str)
            /\ (toolName = "NotebookEdit" /\ QueryKeys(input) = {"query"}
                    /\ HasPlainQuery(input) /\ ~HasKey(input, "notebook_path")) =>
                  /\ HasKey(output, "notebook_path")
                  /\ output["notebook_path"] = JString(input["query"].str)

\* ---------------------------------------------------------------------------
\* the token-limit field of every request sent

\* the request carries exactly one of the two token-limit fields; a field of
\* value 0 is omitted from the JSON body (omitempty)
CarriesExactlyOne(r) == (r.MaxTokens > 0) # (r.MaxCompletionTokens > 0)

\* C32: every request sent to the backend for a client request with a
\* positive max_tokens, first attempt or retry, carries exactly one of
\* max_tokens and max_completion_tokens.
C32_ExactlyOneTokenLimit ==
    \A h \in Handlers : req[h].maxTokens > 0 =>
        \A i \in 1..Len(req[h].sent) : CarriesExactlyOne(req[h].sent[i])

\* ---------------------------------------------------------------------------
\* backend errors as the client sees them

\* C33: a request that ended with a backend error of status s is answered
\* with the error type that FromHTTPStatus gives for s.
C33_BackendStatusMapped ==
    \A h \in Handlers :
        (req[h].pc = "done" /\ req[h].result = "error" /\ req[h].backendStatus # 0) =>
            req[h].response.errorType = FromHTTPStatus(req[h].backendStatus)

\* ---------------------------------------------------------------------------
\* the cache after a retry that fails

\* C34: when the retry of the first request ever received fails, the cache
\* entry of its key is what it was before the request, that is, absent.
C34_FailedRetryLeavesCache ==
    \A h \in Handlers :
        (received = 1 /\ Len(req[h].sent) = 2
                      /\ req[h].pc = "done" /\ req[h].result = "error") =>
            ~HasCapabilities(modelCapabilityCache, KeyOf(req[h]))

\* ---------------------------------------------------------------------------
\* SanitizeToolArgs as a function of its inputs

\* C35: the result of SanitizeToolArgs is the same on every invocation with
\* the same tool name and arguments, whichever order the map is iterated in.
C35_SanitizeToolArgsIsPure ==
    sanitized["SanitizeToolArgs"] # NotCalled =>
        /\ sanitized["SanitizeToolArgs"] = SanitizeToolArgsOfMap(toolName, toolArgs, FALSE)
        /\ sanitized["SanitizeToolArgs"] = SanitizeToolArgsOfMap(toolName, toolArgs, TRUE)

\* ---------------------------------------------------------------------------
\* the injected instruction

\* the step in which handleMessages injects the instruction
InjectionStep ==
    "InjectInstruction" \notin converted /\ "InjectInstruction" \in converted'

\* the messages of a converted list other than its leading system message
OtherMessages(messages) ==
    IF messages # <<>> /\ messages[1].Role = "system" THEN Tail(messages) ELSE messages

\* C36: after the injection a non-empty message list starts with a system
\* message whose content ends with the instruction text, which the system text
\* of the request precedes when it had one, and the other messages are those
\* of the conversion, in the same order.
C36_InstructionInjected ==
    [][(InjectionStep /\ openaiMessages' # <<>>) =>
          /\ openaiMessages'[1].Role = "system"
          /\ \E prefix \in {"", system, "hello"} :
                openaiMessages'[1].Content = prefix \o Instruction
          /\ system # "" => openaiMessages'[1].Content = system \o Instruction
          /\ Tail(openaiMessages') = OtherMessages(openaiMessages)]_vars

\* the instruction has been appended to the system text of a request that has
\* other messages too
C36_Witness ==
    /\ "InjectInstruction" \in converted
    /\ system # ""
    /\ Len(claudeMessages) = 2
    /\ Len(openaiMessages) >= 3
    /\ openaiMessages[1].Content = system \o Instruction

\* ---------------------------------------------------------------------------
\* the cache under concurrent requests

\* the cache records uses_max_completion_tokens=false for the key
RecordsFalse(cache, key) ==
    HasCapabilities(cache, key) /\ ~cache[key].UsesMaxCompletionTokens

\* C37: once the cache records uses_max_completion_tokens=false for a key,
\* no step of any request makes the entry true again or removes it.
C37_FalseIsNeverOverwritten ==
    [][\A k \in CacheKeys :
          RecordsFalse(modelCapabilityCache, k) => RecordsFalse(modelCapabilityCache', k)]_vars

\* ---------------------------------------------------------------------------
\* the second sanitization pass

\* C38: a map that SanitizeToolArgs, sanitizeToolInput or
\* sanitizeToolInputFromInterface returned is returned unchanged by a second
\* SanitizeToolArgs for the same tool name.
C38_SanitizeToolArgsIsIdempotent ==
    \A f \in Sanitizers :
        sanitized[f].kind = "object" =>
            \A rev \in BOOLEAN :
                SanitizeToolArgsOfMap(toolName, sanitized[f], rev) = sanitized[f]

\* ---------------------------------------------------------------------------
\* the model name reported to the client

\* the model field of message_start: handleStreamingMessages hands
\* openaiReq.Model to streamOpenAIToClaude as providerModel
MessageStartModel(openaiReq) == openaiReq.Model

\* the Model of the response ConvertResponse builds from its requestedModel
\* argument, which handleMessages sets to claudeReq.Model
ResponseModel(claudeReq) == claudeReq.Model

\* C39: the model reported to the client is the model name of the request,
\* in the message_start of a streaming response as in the non-streaming
\* response.
C39_ReportedModelIsRequested ==
    openaiRequest.called =>
        /\ ResponseModel(claudeRequest) = claudeRequest.Model
        /\ claudeRequest.Stream = "true" =>
              /\ MessageStartModel(openaiRequest) = claudeRequest.Model
              /\ MessageStartModel(openaiRequest) = ResponseModel(claudeRequest)

\* ---------------------------------------------------------------------------
\* the two streaming implementations

\* the content_block_start events an implementation wrote, in order
BlockStartsOf(evs) == SelectSeq(evs, LAMBDA e : e.type = "content_block_start" /\ ~e.fwd)

\* C40: driven with the same deltas, streamOpenAIToClaude and the
\* StreamProcessor have written the same content_block_start events: the same
\* block types, ids and indices in the same order.
C40_SameBlockStarts ==
    BlockStartsOf(events) = BlockStartsOf(processor.events)

====
